---- MODULE Spec2Model ----
(***************************************************************************)
(* Incremental synchronisation engine of odoo-ingest: SyncRunner.runModel  *)
(* and SyncRunner.syncModel (src/src/sync-runner.ts) over the Postgres     *)
(* tables written by StateStore and RawRecordStore, against a remote Odoo  *)
(* that answers search_read.                                               *)
(*                                                                         *)
(* Time.  An Odoo timestamp "YYYY-MM-DD HH:MM:SS" is the integer number of *)
(* seconds it denotes (fixed width, so string order is numeric order); a   *)
(* Postgres TIMESTAMPTZ is a number of microseconds; a JavaScript Date and *)
(* its ISO string are a number of milliseconds.                            *)
(*                                                                         *)
(* Optional values.  null is the empty sequence None and a value x is the  *)
(* one-element sequence Some(x).                                           *)
(***************************************************************************)
EXTENDS Integers, Sequences, FiniteSets, TLC

VARIABLES
    model,        \* ModelConfig of the entity: page_size, overlap_seconds
    upstream,     \* records of the entity at the remote Odoo
    rawRecords,   \* table odoo_raw_records (rows of the entity)
    syncState,    \* table odoo_sync_state: None or Some(row of the entity)
    syncRuns,     \* table odoo_sync_runs: row i is the run with run_id i
    pc,           \* position of the process in runModel / syncModel
    runId,        \* runModel: runId of the current run (0: none)
    windowStart,  \* syncModel: windowStart (None or Some(odoo timestamp))
    pageCursor,   \* syncModel: pageCursor (None or Some(CursorPoint))
    records,      \* syncModel: the page returned by the last searchRead
    maxCursor,    \* syncModel: maxCursor of that page (None before a page)
    tx,           \* the open page transaction on txClient
    errorMessage, \* runModel: the error caught, None when none
    hist,         \* history of the runs (not program state)
    lockStrategy, \* AppConfig.postgres.lock_strategy
    advisoryLock, \* Postgres: the instance whose session holds the advisory lock (0: free)
    proc,         \* SyncRunner.run: the locals of each process instance
    syncConfig,   \* SyncConfig: max_retries, backoff_base_ms
    rpc,          \* OdooClient.callRpc: the locals of one call
    client,       \* OdooClient: uid, and the calls made on the client
    loader,       \* loadConfig: the parsed YAML, the AppConfig or the error
    sink,         \* a direct call of RawRecordStore.upsertBatch
    cli           \* cli.ts main: one process from authenticate to its exit

\* The state of one entity's sync: runModel / syncModel, the tables, the remote.
syncVars == <<model, upstream, rawRecords, syncState, syncRuns, pc, runId,
          windowStart, pageCursor, records, maxCursor, tx, errorMessage, hist>>

\* The state of SyncRunner.run and of OdooClient.callRpc.
\* The state of the client, the configuration loader and the sink on their own.
unitVars == <<client, loader, sink, cli>>

outerVars == <<lockStrategy, advisoryLock, proc, syncConfig, rpc, unitVars>>

vars == <<syncVars, outerVars>>

----------------------------------------------------------------------------
(* Bounds of the model *)

MaxId == 3
MaxTime == 2
MaxPageSize == 2
MaxOverlap == 1
MaxRuns == 2
MaxWrites == 1
MaxInstances == 2
MaxModels == 2
MaxRetries == 2
MaxBackoffBase == 3
MaxTimeoutSeconds == 2
RandomSteps == 4
MaxCalls == 4
MaxUid == 2
MaxBatch == 3
MaxFieldRecords == 2
MaxRemote == 2

\* Cap on the searchRead calls of one run, above what any dataset needs
\* (a run over n records issues at most n + 1 calls, and the largest dataset
\* has MaxId + 1 records).
MaxFetches == MaxId + 3
Times == 1..MaxTime
PageSizes == 1..MaxPageSize
Overlaps == 0..MaxOverlap

----------------------------------------------------------------------------
(* Values *)

None == <<>>
Some(x) == <<x>>
IsSome(o) == Len(o) = 1
Get(o) == o[1]

\* Odoo serialises an unset field as false; the model keeps one number for
\* "not a string" in a record's cursor field and for "neither an integer
\* nor a digit string" in its id (the ids of records are positive).
FalseValue == 0

MicrosPerSecond == 1000000
MillisPerSecond == 1000
MicrosPerMilli == 1000

\* A CursorPoint {value, id}.
CursorPoint(v, i) == [value |-> v, id |-> i]

\* a < b in the order of (cursor value, id)
CursorLess(a, b) == a.value < b.value \/ (a.value = b.value /\ a.id < b.id)

Min(a, b) == IF a <= b THEN a ELSE b

\* JavaScript values as they come out of JSON or YAML: undefined (absent),
\* null, a boolean, a number (whole, or n + 1/2), a string.
JsUndefined == [type |-> "undefined", whole |-> FALSE, num |-> 0, str |-> ""]
JsNull == [type |-> "null", whole |-> FALSE, num |-> 0, str |-> ""]
JsFalse == [type |-> "boolean", whole |-> FALSE, num |-> 0, str |-> ""]
JsInt(n) == [type |-> "number", whole |-> TRUE, num |-> n, str |-> ""]
JsHalf(n) == [type |-> "number", whole |-> FALSE, num |-> n, str |-> ""]
JsString(t) == [type |-> "string", whole |-> FALSE, num |-> 0, str |-> t]

\* typeof v === "number" && Number.isInteger(v)
IsJsInteger(v) == v.type = "number" /\ v.whole

\* a ?? b
Coalesce(a, b) == IF a.type \in {"undefined", "null"} THEN b ELSE a

----------------------------------------------------------------------------
(* sync-runner.ts: pure functions *)

\* model.cursor_field, the configured cursor field of the entity.
CursorField == model.cursor_field

\* syncModel, line 192: `${model.cursor_field} asc, id asc`
Order == <<CursorField, "id">>

\* toOdooTimestampUtc(date): the ISO string cut to whole seconds.
toOdooTimestampUtc(dateMs) == dateMs \div MillisPerSecond

\* parseRecordId succeeds on the record.
ValidId(record) == record.id \in Int /\ record.id # FalseValue

\* getRecordCursor succeeds on the record.
ValidCursor(record) == record[CursorField] # FalseValue

RECURSIVE maxCursorFrom(_, _, _)
maxCursorFrom(recs, i, currentMax) ==
    IF i > Len(recs) THEN currentMax
    ELSE LET cand == CursorPoint(recs[i][CursorField], recs[i].id)
         IN  maxCursorFrom(recs, i + 1,
                 IF cand.value > currentMax.value
                    \/ (cand.value = currentMax.value /\ cand.id > currentMax.id)
                 THEN cand ELSE currentMax)

\* maxCursorPoint that never replaces the first record's point.
maxCursorPoint_First(recs) ==
    CursorPoint(recs[1][CursorField], recs[1].id)

\* maxCursorPoint(records, ...) for a non-empty page of valid records.
maxCursorPoint(recs) ==
    maxCursorFrom(recs, 2, CursorPoint(recs[1][CursorField], recs[1].id))

\* A maxCursorPoint that validates the first record only.
maxCursorPointThrows_FirstOnly(recs) ==
    \/ Len(recs) = 0
    \/ ~ValidId(recs[1]) \/ ~ValidCursor(recs[1])

\* maxCursorPoint throws: a record without valid id or cursor (or no record).
maxCursorPointThrows(recs) ==
    \/ Len(recs) = 0
    \/ \E i \in 1..Len(recs) : ~ValidId(recs[i]) \/ ~ValidCursor(recs[i])

\* Terms of an Odoo domain.
Leaf(f, c, v) == [kind |-> "leaf", field |-> f, cmp |-> c, value |-> v]
Op(o) == [kind |-> "op", op |-> o]

\* model.domain, the base filter (docs: res.partner, domain: []).
BaseDomain == <<>>

\* buildDomain with "id >= pageCursor.id" in the continuation.
buildDomain_IdGe(ws, pcur) ==
    BaseDomain
    \o (IF IsSome(ws) THEN <<Leaf(CursorField, ">=", Get(ws))>> ELSE <<>>)
    \o (IF IsSome(pcur)
        THEN << Op("|"),
                Leaf(CursorField, ">", Get(pcur).value),
                Op("&"),
                Leaf(CursorField, "=", Get(pcur).value),
                Leaf("id", ">=", Get(pcur).id) >>
        ELSE <<>>)

\* buildDomain with a strict lower bound on the window.
buildDomain_WindowGt(ws, pcur) ==
    BaseDomain
    \o (IF IsSome(ws) THEN <<Leaf(CursorField, ">", Get(ws))>> ELSE <<>>)
    \o (IF IsSome(pcur)
        THEN << Op("|"),
                Leaf(CursorField, ">", Get(pcur).value),
                Op("&"),
                Leaf(CursorField, "=", Get(pcur).value),
                Leaf("id", ">", Get(pcur).id) >>
        ELSE <<>>)

\* buildDomain with a continuation on the cursor value alone.
buildDomain_NoTieBreak(ws, pcur) ==
    BaseDomain
    \o (IF IsSome(ws) THEN <<Leaf(CursorField, ">=", Get(ws))>> ELSE <<>>)
    \o (IF IsSome(pcur)
        THEN <<Leaf(CursorField, ">", Get(pcur).value)>>
        ELSE <<>>)

\* buildDomain that leaves the window bound out once there is a page cursor.
buildDomain_WindowFirstOnly(ws, pcur) ==
    BaseDomain
    \o (IF IsSome(ws) /\ ~IsSome(pcur) THEN <<Leaf(CursorField, ">=", Get(ws))>> ELSE <<>>)
    \o (IF IsSome(pcur)
        THEN << Op("|"),
                Leaf(CursorField, ">", Get(pcur).value),
                Op("&"),
                Leaf(CursorField, "=", Get(pcur).value),
                Leaf("id", ">", Get(pcur).id) >>
        ELSE <<>>)

\* buildDomain(model, windowStart, pageCursor)
buildDomain(ws, pcur) ==
    BaseDomain
    \o (IF IsSome(ws) THEN <<Leaf(CursorField, ">=", Get(ws))>> ELSE <<>>)
    \o (IF IsSome(pcur)
        THEN << Op("|"),
                Leaf(CursorField, ">", Get(pcur).value),
                Op("&"),
                Leaf(CursorField, "=", Get(pcur).value),
                Leaf("id", ">", Get(pcur).id) >>
        ELSE <<>>)

----------------------------------------------------------------------------
(* The remote: search_read(domain, order, limit)                            *)

LeafHolds(t, rec) ==
    LET x == rec[t.field]
    IN  CASE t.cmp = ">=" -> x >= t.value
          [] t.cmp = ">"  -> x > t.value
          [] t.cmp = "="  -> x = t.value
          [] OTHER        -> FALSE

\* One expression of a domain in prefix notation, from position i:
\* its value on rec and the position after it.  The two operands of an
\* operator are l and r, r starting where l ends.
RECURSIVE EvalAt(_, _, _)
EvalAt(d, i, rec) ==
    IF d[i].kind = "leaf"
    THEN [val |-> LeafHolds(d[i], rec), next |-> i + 1]
    ELSE CHOOSE out \in
             UNION {{ [val |-> IF d[i].op = "|" THEN l.val \/ r.val ELSE l.val /\ r.val,
                       next |-> r.next]
                      : r \in {EvalAt(d, l.next, rec)} }
                    : l \in {EvalAt(d, i + 1, rec)}} : TRUE

\* A domain is the conjunction of its top-level expressions.
RECURSIVE EvalFrom(_, _, _)
EvalFrom(d, i, rec) ==
    IF i > Len(d) THEN TRUE
    ELSE \E e \in {EvalAt(d, i, rec)} : e.val /\ EvalFrom(d, e.next, rec)

Matches(d, rec) == EvalFrom(d, 1, rec)

\* a comes before b in the order "f asc, g asc" of order = <<f, g>>.
OrderLess(order, a, b) ==
    a[order[1]] < b[order[1]] \/ (a[order[1]] = b[order[1]] /\ a[order[2]] < b[order[2]])

RecLess(a, b) == OrderLess(Order, a, b)

\* OdooClient.searchRead: what the remote answers, the first `limit` of the
\* matching records in the given order.
searchRead(domain, order, limit) ==
    LET found == {r \in upstream : Matches(domain, r)}
        Rank(r) == Cardinality({o \in found : OrderLess(order, o, r)}) + 1
    IN  [i \in 1..Min(limit, Cardinality(found)) |->
            CHOOSE r \in found : Rank(r) = i]

----------------------------------------------------------------------------
(* state-store.ts and raw-record-store.ts: the SQL statements, as functions *)
(* from the table before the statement to the table after it                *)

\* `${cursorValue}+00` read by Postgres as a TIMESTAMPTZ.
PgTimestamptz(odooTs) == odooTs * MicrosPerSecond

\* The pg driver's Date for a TIMESTAMPTZ, and its toISOString().
PgToIsoString(micros) == micros \div MicrosPerMilli

\* normalizeOdooTimestamp(value), then stored in a TIMESTAMPTZ column.
normalizeOdooTimestamp(value) ==
    IF value = FalseValue THEN None ELSE Some(PgTimestamptz(value))

RawRow(record, run) ==
    [odoo_id |-> record.id,
     write_date |-> normalizeOdooTimestamp(record.write_date),
     payload |-> record,
     run_id |-> run]

\* upsertBatch with ON CONFLICT (model, odoo_id) DO NOTHING.
upsertBatch_DoNothing(table, recs, run) ==
    LET new == {RawRow(recs[i], run) : i \in 1..Len(recs)}
    IN  table \cup {n \in new : \A row \in table : n.odoo_id # row.odoo_id}

\* RawRecordStore.upsertBatch: INSERT ... ON CONFLICT (model, odoo_id) DO UPDATE
upsertBatch(table, recs, run) ==
    LET new == {RawRow(recs[i], run) : i \in 1..Len(recs)}
    IN  {row \in table : \A n \in new : n.odoo_id # row.odoo_id} \cup new

\* StateStore.getState: the SyncState of the row, cursor_value as ISO string.
getState(st) ==
    IF ~IsSome(st) THEN None
    ELSE Some([cursor_field |-> Get(st).cursor_field,
               cursor_value |-> IF IsSome(Get(st).cursor_value)
                                THEN Some(PgToIsoString(Get(Get(st).cursor_value)))
                                ELSE None,
               cursor_id |-> Get(st).cursor_id,
               last_success_run_id |-> Get(st).last_success_run_id])

\* updateState that keeps the cursor_field of a row that exists.
updateState_KeepField(st, cursorField, cursorValue, cursorId) ==
    IF IsSome(st)
    THEN Some([Get(st) EXCEPT !.cursor_value = Some(PgTimestamptz(cursorValue)),
                              !.cursor_id = Some(cursorId)])
    ELSE Some([cursor_field |-> cursorField,
               cursor_value |-> Some(PgTimestamptz(cursorValue)),
               cursor_id |-> Some(cursorId),
               last_success_run_id |-> None])

\* StateStore.updateState: INSERT ... ON CONFLICT (model) DO UPDATE
updateState(st, cursorField, cursorValue, cursorId) ==
    IF IsSome(st)
    THEN Some([Get(st) EXCEPT !.cursor_field = cursorField,
                              !.cursor_value = Some(PgTimestamptz(cursorValue)),
                              !.cursor_id = Some(cursorId)])
    ELSE Some([cursor_field |-> cursorField,
               cursor_value |-> Some(PgTimestamptz(cursorValue)),
               cursor_id |-> Some(cursorId),
               last_success_run_id |-> None])

\* markLastSuccessRun whose INSERT fills the cursor columns with the epoch
\* and id 0.
markLastSuccessRun_WithCursor(st, cursorField, run) ==
    IF IsSome(st)
    THEN Some([Get(st) EXCEPT !.last_success_run_id = Some(run)])
    ELSE Some([cursor_field |-> cursorField,
               cursor_value |-> Some(0),
               cursor_id |-> Some(0),
               last_success_run_id |-> Some(run)])

\* StateStore.markLastSuccessRun: INSERT ... ON CONFLICT (model) DO UPDATE
markLastSuccessRun(st, cursorField, run) ==
    IF IsSome(st)
    THEN Some([Get(st) EXCEPT !.last_success_run_id = Some(run)])
    ELSE Some([cursor_field |-> cursorField,
               cursor_value |-> None,
               cursor_id |-> None,
               last_success_run_id |-> Some(run)])

\* StateStore.startRun: INSERT INTO odoo_sync_runs (run_id, model, status)
startRun(runs, run) ==
    Append(runs, [run_id |-> run, status |-> "running",
                  records_read |-> 0, records_upserted |-> 0,
                  pages_processed |-> 0, error_message |-> None])

\* updateRunProgress that stores the counters of the page in place of the sums.
updateRunProgress_Replace(runs, run, counters) ==
    [i \in 1..Len(runs) |->
        IF runs[i].run_id = run
        THEN [runs[i] EXCEPT
                 !.records_read = counters.recordsReadDelta,
                 !.records_upserted = counters.recordsUpsertedDelta,
                 !.pages_processed = counters.pagesProcessedDelta]
        ELSE runs[i]]

\* StateStore.updateRunProgress: UPDATE odoo_sync_runs ... WHERE run_id = $1
updateRunProgress(runs, run, counters) ==
    [i \in 1..Len(runs) |->
        IF runs[i].run_id = run
        THEN [runs[i] EXCEPT
                 !.records_read = @ + counters.recordsReadDelta,
                 !.records_upserted = @ + counters.recordsUpsertedDelta,
                 !.pages_processed = @ + counters.pagesProcessedDelta]
        ELSE runs[i]]

\* finishRun that sets the status and leaves error_message as it was.
finishRun_NoMessage(runs, run, status, message) ==
    [i \in 1..Len(runs) |->
        IF runs[i].run_id = run
        THEN [runs[i] EXCEPT !.status = status]
        ELSE runs[i]]

\* StateStore.finishRun: UPDATE odoo_sync_runs SET status, error_message
finishRun(runs, run, status, message) ==
    [i \in 1..Len(runs) |->
        IF runs[i].run_id = run
        THEN [runs[i] EXCEPT !.status = status, !.error_message = message]
        ELSE runs[i]]

\* No window start, whatever the checkpoint: every run is a full backfill.
computeWindowStart_FullBackfill(existingState, overlapSeconds) == None

\* The window start with the overlap added instead of subtracted.
computeWindowStart_Plus(existingState, overlapSeconds) ==
    IF IsSome(existingState) /\ IsSome(Get(existingState).cursor_value)
    THEN Some(toOdooTimestampUtc(
             Get(Get(existingState).cursor_value) + overlapSeconds * MillisPerSecond))
    ELSE None

\* The window start at the cursor value itself.
computeWindowStart_NoOverlap(existingState, overlapSeconds) ==
    IF IsSome(existingState) /\ IsSome(Get(existingState).cursor_value)
    THEN Some(toOdooTimestampUtc(Get(Get(existingState).cursor_value)))
    ELSE None

\* syncModel, lines 178-186: the window start from the state read.
computeWindowStart(existingState, overlapSeconds) ==
    IF IsSome(existingState) /\ IsSome(Get(existingState).cursor_value)
    THEN Some(toOdooTimestampUtc(
             Get(Get(existingState).cursor_value) - overlapSeconds * MillisPerSecond))
    ELSE None

----------------------------------------------------------------------------
(* The state machine *)

NoTx == [open |-> FALSE, rawRecords |-> {}, syncState |-> None,
         syncRuns |-> <<>>, upsertedCount |-> 0]

NoPrev == [outcome |-> "none", failPage |-> 0, commits |-> <<>>,
           page1 |-> <<>>, checkpoint |-> None, static |-> TRUE]

\* The remote datasets of n records: ids 1..n, any cursor value each, first
\* version of each payload.
DatasetsOfSize(n) ==
    { {[id |-> i, write_date |-> f[i], ver |-> 0] : i \in 1..n}
      : f \in [1..n -> Times] }

Datasets == UNION {DatasetsOfSize(n) : n \in 0..MaxId}

\* Empty tables and no run under way.
FreshStore ==
    /\ rawRecords = {}
    /\ syncState = None
    /\ syncRuns = <<>>
    /\ pc = "idle"
    /\ runId = 0
    /\ windowStart = None
    /\ pageCursor = None
    /\ records = <<>>
    /\ maxCursor = None
    /\ tx = NoTx
    /\ errorMessage = None
    /\ hist = [pages |-> <<>>, commits |-> <<>>, startState |-> None, queries |-> <<>>,
               fetches |-> 0, outcome |-> "none", failPage |-> 0,
               thrown |-> None, delivered |-> <<>>, writes |-> 0,
               changed |-> FALSE, prev |-> NoPrev]

\* The state after construction, over one of the given remote datasets.
InitOver(datasets) ==
    /\ model \in [page_size : PageSizes, overlap_seconds : Overlaps,
                  cursor_field : {"write_date"}]
    /\ upstream \in datasets
    /\ FreshStore

\* No SyncRunner.run and no callRpc is under way.
NoRpc == [pc |-> "idle", attempt |-> 0, clock |-> 0, outcome |-> None,
          attempts |-> <<>>, sleeps |-> <<>>, caller |-> None]

NoClient == [uid |-> None, log |-> <<>>, authenticated |-> None]
NoLoader == [pc |-> "none", raw |-> <<>>, config |-> None]
NoSink == [pc |-> "none", table |-> {}, batch |-> <<>>, before |-> {},
           thrown |-> FALSE, count |-> 0]
NoCli == [pc |-> "none"]

UnitIdle ==
    client = NoClient /\ loader = NoLoader /\ sink = NoSink /\ cli = NoCli

OuterIdle ==
    /\ UnitIdle
    /\ lockStrategy = "advisory"
    /\ advisoryLock = 0
    /\ proc = <<>>
    /\ syncConfig = [max_retries |-> 0, backoff_base_ms |-> 1,
                     request_timeout_seconds |-> 1]
    /\ rpc = NoRpc

Init == InitOver(Datasets) /\ OuterIdle

\* The locals of runModel and syncModel go out of scope.
Return(outcome, failPage) ==
    /\ pc' = "idle"
    /\ windowStart' = None
    /\ pageCursor' = None
    /\ records' = <<>>
    /\ maxCursor' = None
    /\ tx' = NoTx
    /\ errorMessage' = None
    /\ hist' = [hist EXCEPT !.outcome = outcome, !.failPage = failPage]

\* An error thrown inside syncModel or the try block of runModel reaches the
\* catch of runModel; an open transaction was rolled back on the way.
Throw(message, h) ==
    /\ pc' = "finishFailed"
    /\ errorMessage' = Some(message)
    /\ tx' = NoTx
    /\ hist' = [h EXCEPT !.thrown = Some(message)]

InPage == pc \in {"searchRead", "begin", "upsertBatch", "updateState",
                  "updateRunProgress", "commit"}

FailedAt(h) == [h EXCEPT !.failPage = IF InPage THEN h.fetches ELSE 0]

\* The remote data changes between two invocations: a record is written
\* (its write_date moves to the time of the write) or created.  Only changes
\* that a later run can see are of interest.
UpstreamWrite ==
    /\ pc = "idle"
    /\ hist.writes < MaxWrites
    /\ Len(syncRuns) < MaxRuns
    /\ \/ \E r \in upstream, t \in Times :
            /\ t >= r.write_date
            /\ upstream' = (upstream \ {r})
                   \cup {[r EXCEPT !.write_date = t, !.ver = r.ver + 1]}
       \/ \E t \in Times :
            /\ Cardinality(upstream) < MaxId
            /\ upstream' = upstream
                   \cup {[id |-> Cardinality(upstream) + 1, write_date |-> t, ver |-> 0]}
    /\ hist' = [hist EXCEPT !.writes = @ + 1, !.changed = TRUE]
    /\ UNCHANGED <<model, rawRecords, syncState, syncRuns, pc, runId, windowStart,
                   pageCursor, records, maxCursor, tx, errorMessage>>
    /\ UNCHANGED outerVars

\* runModel, lines 148-151: a fresh runId and startRun.
StartRun ==
    /\ pc = "idle"
    /\ Len(syncRuns) < MaxRuns
    /\ runId' = Len(syncRuns) + 1
    /\ syncRuns' = startRun(syncRuns, Len(syncRuns) + 1)
    /\ pc' = "getState"
    /\ hist' = [pages |-> <<>>, commits |-> <<>>, startState |-> None, queries |-> <<>>,
                fetches |-> 0, outcome |-> "running", failPage |-> 0,
                thrown |-> None, delivered |-> hist.delivered,
                writes |-> hist.writes, changed |-> FALSE,
                prev |-> [outcome |-> hist.outcome,
                          failPage |-> hist.failPage,
                          commits |-> hist.commits,
                          page1 |-> IF Len(hist.pages) > 0 THEN hist.pages[1] ELSE <<>>,
                          checkpoint |-> syncState,
                          static |-> ~hist.changed]]
    /\ UNCHANGED <<model, upstream, rawRecords, syncState, windowStart, pageCursor,
                   records, maxCursor, tx, errorMessage>>
    /\ UNCHANGED outerVars

\* syncModel, lines 168-188: read the state, compute the window start.
GetState ==
    /\ pc = "getState"
    /\ windowStart' = computeWindowStart(getState(syncState), model.overlap_seconds)
    /\ pageCursor' = None
    /\ pc' = "searchRead"
    /\ hist' = [hist EXCEPT !.startState = syncState]
    /\ UNCHANGED <<model, upstream, rawRecords, syncState, syncRuns, runId,
                   records, maxCursor, tx, errorMessage>>
    /\ UNCHANGED outerVars

\* syncModel, lines 191-193: the arguments of the searchRead call.
Query ==
    [domain |-> buildDomain(windowStart, pageCursor), order |-> Order,
     limit |-> model.page_size]

\* syncModel, lines 195-201: the page is back from searchRead.
PageReceived(page) ==
    LET h == [hist EXCEPT !.pages = Append(@, page), !.fetches = @ + 1,
                          !.queries = Append(@, Query)]
    IN  /\ records' = page
        /\ IF Len(page) = 0
           THEN /\ pc' = "markLastSuccessRun"
                /\ hist' = h
                /\ UNCHANGED <<maxCursor, errorMessage, tx>>
           ELSE IF maxCursorPointThrows(page)
           THEN /\ Throw("validation", [h EXCEPT !.failPage = h.fetches])
                /\ UNCHANGED maxCursor
           ELSE /\ maxCursor' = Some(maxCursorPoint(page))
                /\ pc' = "begin"
                /\ hist' = h
                /\ UNCHANGED <<errorMessage, tx>>

\* syncModel, lines 191-193: the remote answers the search_read.
SearchRead ==
    /\ pc = "searchRead"
    /\ hist.fetches < MaxFetches
    /\ \E q \in {Query} :
          \E page \in {searchRead(q.domain, q.order, q.limit)} :
              PageReceived(page)
    /\ UNCHANGED <<model, upstream, rawRecords, syncState, syncRuns, runId,
                   windowStart, pageCursor>>
    /\ UNCHANGED outerVars

\* The remote answers with a page in which one record has no cursor value
\* or no id.
SearchReadMalformed ==
    /\ pc = "searchRead"
    /\ \E q \in {Query} :
          \E page \in {searchRead(q.domain, q.order, q.limit)}, i \in 1..model.page_size :
              /\ i <= Len(page)
              /\ \E bad \in {[page EXCEPT ![i][CursorField] = FalseValue],
                               [page EXCEPT ![i].id = FalseValue]} :
                    PageReceived(bad)
    /\ UNCHANGED <<model, upstream, rawRecords, syncState, syncRuns, runId,
                   windowStart, pageCursor>>
    /\ UNCHANGED outerVars

\* callRpc gives up: searchRead throws.
SearchReadFails ==
    /\ pc = "searchRead"
    /\ Throw("remote", [hist EXCEPT !.fetches = @ + 1, !.failPage = hist.fetches + 1,
                                    !.queries = Append(@, Query)])
    /\ UNCHANGED <<model, upstream, rawRecords, syncState, syncRuns, runId,
                   windowStart, pageCursor, records, maxCursor>>
    /\ UNCHANGED outerVars

\* syncModel, lines 201-203: pool.connect() and BEGIN.
TxBegin ==
    /\ pc = "begin"
    /\ tx' = [open |-> TRUE, rawRecords |-> rawRecords, syncState |-> syncState,
              syncRuns |-> syncRuns, upsertedCount |-> 0]
    /\ pc' = "upsertBatch"
    /\ UNCHANGED <<model, upstream, rawRecords, syncState, syncRuns, runId,
                   windowStart, pageCursor, records, maxCursor, errorMessage, hist>>
    /\ UNCHANGED outerVars

\* syncModel, line 205
TxUpsertBatch ==
    /\ pc = "upsertBatch"
    /\ tx' = [tx EXCEPT !.rawRecords = upsertBatch(tx.rawRecords, records, runId),
                        !.upsertedCount = Len(records)]
    /\ pc' = "updateState"
    /\ UNCHANGED <<model, upstream, rawRecords, syncState, syncRuns, runId,
                   windowStart, pageCursor, records, maxCursor, errorMessage, hist>>
    /\ UNCHANGED outerVars

\* syncModel, lines 207-213
TxUpdateState ==
    /\ pc = "updateState"
    /\ tx' = [tx EXCEPT !.syncState =
                 updateState(tx.syncState, CursorField,
                             Get(maxCursor).value, Get(maxCursor).id)]
    /\ pc' = "updateRunProgress"
    /\ UNCHANGED <<model, upstream, rawRecords, syncState, syncRuns, runId,
                   windowStart, pageCursor, records, maxCursor, errorMessage, hist>>
    /\ UNCHANGED outerVars

\* syncModel, lines 215-219
TxUpdateRunProgress ==
    /\ pc = "updateRunProgress"
    /\ tx' = [tx EXCEPT !.syncRuns =
                 updateRunProgress(tx.syncRuns, runId,
                     [recordsReadDelta |-> Len(records),
                      recordsUpsertedDelta |-> tx.upsertedCount,
                      pagesProcessedDelta |-> 1])]
    /\ pc' = "commit"
    /\ UNCHANGED <<model, upstream, rawRecords, syncState, syncRuns, runId,
                   windowStart, pageCursor, records, maxCursor, errorMessage, hist>>
    /\ UNCHANGED outerVars

\* A commit that loses the checkpoint update (updateState sent on another
\* connection whose statement is not part of the transaction).
Durable_NoState(t) ==
    /\ rawRecords' = t.rawRecords
    /\ syncState' = syncState
    /\ syncRuns' = t.syncRuns

\* COMMIT makes the writes of the transaction durable, all of them.
Durable(t) ==
    /\ rawRecords' = t.rawRecords
    /\ syncState' = t.syncState
    /\ syncRuns' = t.syncRuns

\* The cursor position of a row of odoo_sync_state: None when there is no
\* row or the row has no cursor value.
CheckpointPos(st) ==
    IF IsSome(st) /\ IsSome(Get(st).cursor_value)
    THEN Some(CursorPoint(Get(Get(st).cursor_value), Get(Get(st).cursor_id)))
    ELSE None

\* History: the position a commit made durable and, per id, the payload of
\* the record most recently committed.
Committed(h) ==
    LET ids == {records[i].id : i \in 1..Len(records)}
        rec(id) == CHOOSE r \in {records[i] : i \in 1..Len(records)} : r.id = id
    IN  [h EXCEPT !.commits = Append(@, Get(CheckpointPos(tx.syncState))),
                  !.delivered = [id \in DOMAIN h.delivered \cup ids |->
                                    IF id \in ids THEN rec(id) ELSE h.delivered[id]]]

\* A loop that goes on to the next searchRead after a short page too.
TxCommit_AlwaysNextPage ==
    /\ pc = "commit"
    /\ Durable(tx)
    /\ tx' = NoTx
    /\ pageCursor' = maxCursor
    /\ pc' = "searchRead"
    /\ hist' = Committed(hist)
    /\ UNCHANGED <<model, upstream, runId, windowStart, records, maxCursor, errorMessage>>
    /\ UNCHANGED outerVars

\* syncModel, lines 221-242: COMMIT, then the next page or the end of the loop.
TxCommit ==
    /\ pc = "commit"
    /\ Durable(tx)
    /\ tx' = NoTx
    /\ pageCursor' = maxCursor
    /\ pc' = IF Len(records) < model.page_size THEN "markLastSuccessRun" ELSE "searchRead"
    /\ hist' = Committed(hist)
    /\ UNCHANGED <<model, upstream, runId, windowStart, records, maxCursor, errorMessage>>
    /\ UNCHANGED outerVars

\* COMMIT throws.  The transaction is aborted, or (the connection broke
\* after the server committed) it is durable although the client saw an error.
TxCommitFails ==
    /\ pc = "commit"
    /\ \E applied \in BOOLEAN :
          IF applied
          THEN Durable(tx) /\ Throw("store", FailedAt(Committed(hist)))
          ELSE UNCHANGED <<rawRecords, syncState, syncRuns>>
               /\ Throw("store", FailedAt(hist))
    /\ UNCHANGED <<model, upstream, runId, windowStart, pageCursor, records, maxCursor>>
    /\ UNCHANGED outerVars

\* A statement on the store throws (lines 168, 201-219, 155, 156); inside the
\* transaction the catch of syncModel sends ROLLBACK and rethrows.
StoreFails ==
    /\ pc \in {"getState", "begin", "upsertBatch", "updateState",
               "updateRunProgress", "markLastSuccessRun", "finishSuccess"}
    /\ Throw("store", FailedAt(hist))
    /\ UNCHANGED <<model, upstream, rawRecords, syncState, syncRuns, runId,
                   windowStart, pageCursor, records, maxCursor>>
    /\ UNCHANGED outerVars

\* runModel, line 155
MarkLastSuccessRun ==
    /\ pc = "markLastSuccessRun"
    /\ syncState' = markLastSuccessRun(syncState, CursorField, runId)
    /\ pc' = "finishSuccess"
    /\ UNCHANGED <<model, upstream, rawRecords, syncRuns, runId, windowStart,
                   pageCursor, records, maxCursor, tx, errorMessage, hist>>
    /\ UNCHANGED outerVars

\* runModel, lines 156-158
FinishSuccess ==
    /\ pc = "finishSuccess"
    /\ syncRuns' = finishRun(syncRuns, runId, "success", None)
    /\ Return("success", 0)
    /\ UNCHANGED <<model, upstream, rawRecords, syncState, runId>>
    /\ UNCHANGED outerVars

\* runModel, lines 159-163
FinishFailed ==
    /\ pc = "finishFailed"
    /\ syncRuns' = finishRun(syncRuns, runId, "failed", errorMessage)
    /\ Return("failed", hist.failPage)
    /\ UNCHANGED <<model, upstream, rawRecords, syncState, runId>>
    /\ UNCHANGED outerVars

\* finishRun throws inside the catch of runModel: the error leaves runModel.
FinishFailedFails ==
    /\ pc = "finishFailed"
    /\ Return("escaped", hist.failPage)
    /\ UNCHANGED <<model, upstream, rawRecords, syncState, syncRuns, runId>>
    /\ UNCHANGED outerVars

\* The process is interrupted; Postgres aborts its open transaction.
Crash ==
    /\ pc # "idle"
    /\ Return("crashed", IF InPage THEN hist.fetches ELSE 0)
    /\ UNCHANGED <<model, upstream, rawRecords, syncState, syncRuns, runId>>
    /\ UNCHANGED outerVars

Next ==
    \/ UpstreamWrite
    \/ StartRun
    \/ GetState
    \/ SearchRead
    \/ SearchReadMalformed
    \/ SearchReadFails
    \/ TxBegin
    \/ TxUpsertBatch
    \/ TxUpdateState
    \/ TxUpdateRunProgress
    \/ TxCommit
    \/ TxCommitFails
    \/ StoreFails
    \/ MarkLastSuccessRun
    \/ FinishSuccess
    \/ FinishFailed
    \/ FinishFailedFails
    \/ Crash

Spec == Init /\ [][Next]_vars

\* The steps the process takes when nothing fails.  Every awaited call
\* returns (each remote call has its own timeout; the statements on the
\* store run to completion), so the process keeps taking steps.
Step ==
    \/ GetState
    \/ SearchRead
    \/ TxBegin
    \/ TxUpsertBatch
    \/ TxUpdateState
    \/ TxUpdateRunProgress
    \/ TxCommit
    \/ MarkLastSuccessRun
    \/ FinishSuccess
    \/ FinishFailed

\* The runs over a remote dataset that never changes.
StaticNext ==
    \/ StartRun
    \/ Step
    \/ SearchReadMalformed
    \/ SearchReadFails
    \/ TxCommitFails
    \/ StoreFails
    \/ FinishFailedFails
    \/ Crash

FairSpec == Init /\ [][StaticNext]_vars /\ WF_vars(Step)

\* The runs over a static remote dataset of MaxId + 1 records, which takes
\* three searchRead calls and more at every page size.
LongInit == InitOver(DatasetsOfSize(MaxId + 1)) /\ OuterIdle

LongSpec == LongInit /\ [][StaticNext]_vars

\* The fields a model can be configured to use as its cursor.
CursorFields == {"write_date", "create_date"}

\* Remote datasets of up to MaxFieldRecords records with both fields.
FieldDatasetsOfSize(n) ==
    { {[id |-> i, write_date |-> f[i], create_date |-> g[i], ver |-> 0] : i \in 1..n}
      : f \in [1..n -> Times], g \in [1..n -> Times] }
FieldDatasets == UNION {FieldDatasetsOfSize(n) : n \in 0..MaxFieldRecords}

FieldInit ==
    /\ model \in [page_size : PageSizes, overlap_seconds : Overlaps,
                  cursor_field : CursorFields]
    /\ upstream \in FieldDatasets
    /\ FreshStore
    /\ OuterIdle

\* Between two invocations the operator edits cursor_field in the
\* configuration file of the model.
Reconfigure ==
    /\ pc = "idle"
    /\ \E f \in CursorFields \ {model.cursor_field} :
          model' = [model EXCEPT !.cursor_field = f]
    /\ UNCHANGED <<upstream, rawRecords, syncState, syncRuns, pc, runId,
                   windowStart, pageCursor, records, maxCursor, tx, errorMessage, hist>>
    /\ UNCHANGED outerVars

FieldNext == StaticNext \/ Reconfigure

\* The runs of a model whose cursor field changes between invocations.
FieldSpec == FieldInit /\ [][FieldNext]_vars

----------------------------------------------------------------------------
(* SyncRunner.run: the advisory lock and the loop over config.models, for   *)
(* several process instances on one store.  runModel is taken in its steps  *)
(* startRun, syncModel with markLastSuccessRun, finishRun; what syncModel    *)
(* does to one entity is the state machine above.                           *)

\* The process instances, each in its own Postgres sessions.
Inst == 1..MaxInstances

\* config.models, by position.
Models == 1..MaxModels

\* pg_try_advisory_lock(id) sent on a session: the lock is granted when it
\* is free or the session's own.
pg_try_advisory_lock(lock, session) ==
    [acquired |-> lock \in {0, session},
     lock |-> IF lock \in {0, session} THEN session ELSE lock]

\* pg_advisory_unlock(id) sent on a session.
pg_advisory_unlock(lock, session) == IF lock = session THEN 0 ELSE lock

\* A result with a row counts as the lock acquired.
lockAcquiredOf_AnyRow(result) == TRUE

\* run, line 114: lockAcquired = result.rows[0]?.acquired === true
lockAcquiredOf(result) == result.acquired = TRUE

\* run, lines 98-101: the locals of an invocation, and its history
\* (attempted .. lockFault are not program state).
NewProc ==
    [pc |-> "connect", lockClient |-> FALSE, lockAcquired |-> FALSE,
     idx |-> 1, failedModels |-> <<>>, curRun |-> 0,
     pending |-> "return", result |-> "none",
     attempted |-> <<>>, runs |-> {}, unlocks |-> 0, contended |-> FALSE,
     failures |-> 0, lockFault |-> FALSE]

\* The entity state machine at rest while SyncRunner.run is followed.
EntityIdle ==
    /\ InitOver({{}})
    /\ model = [page_size |-> 1, overlap_seconds |-> 0, cursor_field |-> "write_date"]

RunnerInit ==
    /\ EntityIdle
    /\ UnitIdle
    /\ lockStrategy \in {"advisory", "none"}
    /\ advisoryLock = 0
    /\ proc = [i \in Inst |-> NewProc]
    /\ syncConfig = [max_retries |-> 0, backoff_base_ms |-> 1,
                     request_timeout_seconds |-> 1]
    /\ rpc = NoRpc

\* What no step of SyncRunner.run changes in this view.
RunnerFrame ==
    UNCHANGED <<model, upstream, rawRecords, syncState, pc, runId, windowStart,
                pageCursor, records, maxCursor, tx, errorMessage, hist,
                lockStrategy, syncConfig, rpc, unitVars>>

\* An error leaves the try block of run: the finally block is next.
Escapes(p) == [p EXCEPT !.pending = "throw", !.pc = "finally"]

\* run, lines 98-99: pool.connect() for the lock client.
Connect(i) ==
    /\ proc[i].pc = "connect"
    /\ proc' = [proc EXCEPT ![i] =
           IF lockStrategy = "advisory"
           THEN [@ EXCEPT !.lockClient = TRUE, !.pc = "tryLock"]
           ELSE [@ EXCEPT !.pc = "loop"]]
    /\ UNCHANGED <<advisoryLock, syncRuns>>
    /\ RunnerFrame

\* pool.connect() throws, before the try block.
ConnectFails(i) ==
    /\ proc[i].pc = "connect"
    /\ lockStrategy = "advisory"
    /\ proc' = [proc EXCEPT ![i] =
           [@ EXCEPT !.pc = "done", !.result = "thrown", !.lockFault = TRUE]]
    /\ UNCHANGED <<advisoryLock, syncRuns>>
    /\ RunnerFrame

\* A lock step that treats a busy lock as an error.
TryLock_ThrowWhenBusy(i) ==
    /\ proc[i].pc = "tryLock"
    /\ \E result \in {pg_try_advisory_lock(advisoryLock, i)} :
          /\ advisoryLock' = result.lock
          /\ proc' = [proc EXCEPT ![i] =
                 IF lockAcquiredOf(result)
                 THEN [@ EXCEPT !.lockAcquired = TRUE, !.pc = "loop"]
                 ELSE Escapes([@ EXCEPT !.contended = TRUE])]
    /\ UNCHANGED syncRuns
    /\ RunnerFrame

\* run, lines 109-122: SELECT pg_try_advisory_lock; return when not acquired.
TryLock(i) ==
    /\ proc[i].pc = "tryLock"
    /\ \E result \in {pg_try_advisory_lock(advisoryLock, i)} :
          /\ advisoryLock' = result.lock
          /\ proc' = [proc EXCEPT ![i] =
                 IF lockAcquiredOf(result)
                 THEN [@ EXCEPT !.lockAcquired = TRUE, !.pc = "loop"]
                 ELSE [@ EXCEPT !.contended = TRUE, !.pending = "return",
                                !.pc = "finally"]]
    /\ UNCHANGED syncRuns
    /\ RunnerFrame

\* The lock query throws.
TryLockFails(i) ==
    /\ proc[i].pc = "tryLock"
    /\ proc' = [proc EXCEPT ![i] = Escapes([@ EXCEPT !.lockFault = TRUE])]
    /\ UNCHANGED <<advisoryLock, syncRuns>>
    /\ RunnerFrame

\* run, lines 129-130: the next model of the loop, runModel(model) is called.
RunModel(i) ==
    /\ proc[i].pc = "loop"
    /\ proc[i].idx \in Models
    /\ proc' = [proc EXCEPT ![i] =
           [@ EXCEPT !.attempted = Append(@, proc[i].idx), !.pc = "startRun"]]
    /\ UNCHANGED <<advisoryLock, syncRuns>>
    /\ RunnerFrame

\* run, lines 136-138: the loop is over; throw when a model failed.
LoopEnd(i) ==
    /\ proc[i].pc = "loop"
    /\ proc[i].idx \notin Models
    /\ proc' = [proc EXCEPT ![i] =
           [@ EXCEPT !.pending = IF Len(proc[i].failedModels) > 0
                                 THEN "throw" ELSE "return",
                     !.pc = "finally"]]
    /\ UNCHANGED <<advisoryLock, syncRuns>>
    /\ RunnerFrame

\* runModel returns to the loop of run, lines 130-133.
Returned(p, success) ==
    [p EXCEPT !.failedModels = IF success THEN @ ELSE Append(@, p.idx),
              !.failures = IF success THEN @ ELSE @ + 1,
              !.idx = @ + 1, !.curRun = 0, !.pc = "loop"]

\* runModel, lines 148-151: a fresh runId, startRun.
StartRunOk(i) ==
    /\ proc[i].pc = "startRun"
    /\ syncRuns' = startRun(syncRuns, Len(syncRuns) + 1)
    /\ proc' = [proc EXCEPT ![i] =
           [@ EXCEPT !.curRun = Len(syncRuns) + 1,
                     !.runs = @ \cup {Len(syncRuns) + 1},
                     !.pc = "syncModel"]]
    /\ UNCHANGED advisoryLock
    /\ RunnerFrame

\* startRun throws: it is outside the try block of runModel, so the error
\* leaves runModel and the loop of run.
StartRunFails(i) ==
    /\ proc[i].pc = "startRun"
    /\ proc' = [proc EXCEPT ![i] = Escapes([@ EXCEPT !.failures = @ + 1])]
    /\ UNCHANGED <<advisoryLock, syncRuns>>
    /\ RunnerFrame

\* runModel, lines 154-155: syncModel and markLastSuccessRun return.
SyncModelReturns(i) ==
    /\ proc[i].pc = "syncModel"
    /\ proc' = [proc EXCEPT ![i].pc = "finishSuccess"]
    /\ UNCHANGED <<advisoryLock, syncRuns>>
    /\ RunnerFrame

\* syncModel or markLastSuccessRun throws: the catch block is entered.
SyncModelThrows(i) ==
    /\ proc[i].pc = "syncModel"
    /\ proc' = [proc EXCEPT ![i].pc = "finishFailed"]
    /\ UNCHANGED <<advisoryLock, syncRuns>>
    /\ RunnerFrame

\* runModel, lines 156-158: finishRun(runId, "success"), return true.
FinishRunSuccess(i) ==
    /\ proc[i].pc = "finishSuccess"
    /\ syncRuns' = finishRun(syncRuns, proc[i].curRun, "success", None)
    /\ proc' = [proc EXCEPT ![i] = Returned(@, TRUE)]
    /\ UNCHANGED advisoryLock
    /\ RunnerFrame

\* finishRun(runId, "success") throws: the catch block is entered.
FinishRunSuccessFails(i) ==
    /\ proc[i].pc = "finishSuccess"
    /\ proc' = [proc EXCEPT ![i].pc = "finishFailed"]
    /\ UNCHANGED <<advisoryLock, syncRuns>>
    /\ RunnerFrame

\* runModel, lines 159-163: finishRun(runId, "failed", message), return false.
FinishRunFailed(i) ==
    /\ proc[i].pc = "finishFailed"
    /\ syncRuns' = finishRun(syncRuns, proc[i].curRun, "failed", Some("error"))
    /\ proc' = [proc EXCEPT ![i] = Returned(@, FALSE)]
    /\ UNCHANGED advisoryLock
    /\ RunnerFrame

\* finishRun(runId, "failed", message) throws inside the catch block: the
\* error leaves runModel and the loop of run.
FinishRunFailedFails(i) ==
    /\ proc[i].pc = "finishFailed"
    /\ proc' = [proc EXCEPT ![i] = Escapes([@ EXCEPT !.failures = @ + 1])]
    /\ UNCHANGED <<advisoryLock, syncRuns>>
    /\ RunnerFrame

\* run completes: it returns, or throws the pending error.
Completed(p) ==
    [p EXCEPT !.result = IF p.pending = "throw" THEN "thrown" ELSE "returned",
              !.pc = "done"]

\* A finally block that unlocks only when the try block ended normally.
Finally_UnlockOnReturn(i) ==
    /\ proc[i].pc = "finally"
    /\ IF proc[i].lockClient /\ proc[i].lockAcquired /\ proc[i].pending = "return"
       THEN /\ advisoryLock' = pg_advisory_unlock(advisoryLock, i)
            /\ proc' = [proc EXCEPT ![i] = Completed([@ EXCEPT !.unlocks = @ + 1])]
       ELSE /\ UNCHANGED advisoryLock
            /\ proc' = [proc EXCEPT ![i] = Completed(@)]
    /\ UNCHANGED syncRuns
    /\ RunnerFrame

\* run, lines 139-144: the finally block; pg_advisory_unlock when the lock
\* was acquired, then lockClient.release().
Finally(i) ==
    /\ proc[i].pc = "finally"
    /\ IF proc[i].lockClient /\ proc[i].lockAcquired
       THEN /\ advisoryLock' = pg_advisory_unlock(advisoryLock, i)
            /\ proc' = [proc EXCEPT ![i] = Completed([@ EXCEPT !.unlocks = @ + 1])]
       ELSE /\ UNCHANGED advisoryLock
            /\ proc' = [proc EXCEPT ![i] = Completed(@)]
    /\ UNCHANGED syncRuns
    /\ RunnerFrame

\* The unlock query throws: the connection of the lock client is broken, and
\* Postgres drops the locks of a session that ends.
FinallyUnlockFails(i) ==
    /\ proc[i].pc = "finally"
    /\ proc[i].lockClient /\ proc[i].lockAcquired
    /\ advisoryLock' = IF advisoryLock = i THEN 0 ELSE advisoryLock
    /\ proc' = [proc EXCEPT ![i] =
           [@ EXCEPT !.unlocks = @ + 1, !.lockFault = TRUE,
                     !.result = "thrown", !.pc = "done"]]
    /\ UNCHANGED syncRuns
    /\ RunnerFrame

\* The process is killed; its sessions end and Postgres drops their locks.
Killed(i) ==
    /\ proc[i].pc \notin {"done", "dead"}
    /\ advisoryLock' = IF advisoryLock = i THEN 0 ELSE advisoryLock
    /\ proc' = [proc EXCEPT ![i].pc = "dead"]
    /\ UNCHANGED syncRuns
    /\ RunnerFrame

\* cli, main().catch (lines 92-97): the exit code of the process for what
\* SyncRunner.run did.
exitCode(result) == IF result = "thrown" THEN 1 ELSE 0

RunnerNext ==
    \E i \in Inst :
        \/ Connect(i)
        \/ ConnectFails(i)
        \/ TryLock(i)
        \/ TryLockFails(i)
        \/ RunModel(i)
        \/ LoopEnd(i)
        \/ StartRunOk(i)
        \/ StartRunFails(i)
        \/ SyncModelReturns(i)
        \/ SyncModelThrows(i)
        \/ FinishRunSuccess(i)
        \/ FinishRunSuccessFails(i)
        \/ FinishRunFailed(i)
        \/ FinishRunFailedFails(i)
        \/ Finally(i)
        \/ FinallyUnlockFails(i)
        \/ Killed(i)

RunnerSpec == RunnerInit /\ [][RunnerNext]_vars

----------------------------------------------------------------------------
(* OdooClient.callRpc and sendRequest: one call, its attempts and sleeps.   *)
(* Times are milliseconds on a clock that starts with the call.             *)

\* What the network and the server do to one request: no response at all,
\* or a response with an HTTP status and a body, after some time.
HttpStatuses == {200, 401, 403, 404, 500, 503}
Bodies == {"unparsable", "null", "error", "notArray", "result"}
Responses ==
    {[net |-> "error", status |-> 0, body |-> "none"]}
    \cup {[net |-> "ok", status |-> 200, body |-> b] : b \in Bodies}
    \cup {[net |-> "ok", status |-> st, body |-> "error"] : st \in HttpStatuses \ {200}}

\* Math.random(), a number in [0, 1): k / RandomSteps.
Randoms == 0..(RandomSteps - 1)

RECURSIVE Pow2(_)
Pow2(n) == IF n = 0 THEN 1 ELSE 2 * Pow2(n - 1)

\* A thrown error: RetryableRequestError or a plain Error, and its message.
Failure(retryable, message) ==
    [ok |-> FALSE, retryable |-> retryable, message |-> message]

\* sendRequest, line 129 and 144: AbortSignal.timeout(timeoutMs), created
\* when the request is sent; the time at which it aborts the request.
abortTime(now, timeoutSeconds) == now + timeoutSeconds * MillisPerSecond

\* sendRequest, lines 128-176, for a response that arrives (or not) while
\* the signal has or has not aborted the request.
sendRequest(resp, aborted) ==
    IF resp.net = "error" \/ aborted
    THEN Failure(TRUE, <<"Network error calling Odoo JSON-RPC endpoint.">>)
    ELSE IF resp.status >= 500
    THEN Failure(TRUE, <<"Odoo JSON-RPC endpoint returned", resp.status>>)
    ELSE IF resp.status = 401 \/ resp.status = 403
    THEN Failure(FALSE, <<"Authentication/authorization failed with HTTP", resp.status>>)
    ELSE IF ~(resp.status >= 200 /\ resp.status <= 299)
    THEN Failure(FALSE, <<"Odoo JSON-RPC request failed with HTTP", resp.status>>)
    ELSE IF resp.body = "unparsable"
    THEN Failure(TRUE, <<"Failed to parse JSON-RPC response payload.">>)
    ELSE IF resp.body = "null"
    THEN Failure(FALSE, <<"TypeError">>)
    ELSE IF resp.body = "error"
    THEN Failure(FALSE, <<"Odoo JSON-RPC error">>)
    ELSE [ok |-> TRUE, retryable |-> FALSE, message |-> <<resp.body>>]

\* callRpc, line 99
maxAttempts == syncConfig.max_retries + 1

canRetry_Le(error, attempt) == error.retryable /\ attempt <= maxAttempts

canRetry_AnyError(error, attempt) == attempt < maxAttempts

\* callRpc, line 105
canRetry(error, attempt) == error.retryable /\ attempt < maxAttempts

delayMs_Ceil(attempt, rnd) ==
    syncConfig.backoff_base_ms * Pow2(attempt - 1)
        + ((rnd * syncConfig.backoff_base_ms + RandomSteps - 1) \div RandomSteps)

\* callRpc, lines 110-112: baseDelay + jitter, with Math.random() = rnd / RandomSteps
delayMs(attempt, rnd) ==
    syncConfig.backoff_base_ms * Pow2(attempt - 1)
        + ((rnd * syncConfig.backoff_base_ms) \div RandomSteps)

\* The times a response can take, around the timeout of a request.
Latencies ==
    {1, syncConfig.request_timeout_seconds * MillisPerSecond - 1,
        syncConfig.request_timeout_seconds * MillisPerSecond + 1}

RpcInit ==
    /\ EntityIdle
    /\ UnitIdle
    /\ lockStrategy = "advisory"
    /\ advisoryLock = 0
    /\ proc = <<>>
    /\ syncConfig \in [max_retries : 0..MaxRetries,
                       backoff_base_ms : 1..MaxBackoffBase,
                       request_timeout_seconds : 1..MaxTimeoutSeconds]
    /\ rpc = NoRpc

RpcFrame ==
    UNCHANGED <<syncVars, lockStrategy, advisoryLock, proc, syncConfig, unitVars>>

\* callRpc, lines 98-101: the call starts with attempt 1.
CallRpc ==
    /\ rpc.pc = "idle"
    /\ rpc' = [rpc EXCEPT !.pc = "send", !.attempt = 1]
    /\ RpcFrame

\* callRpc, lines 102-108: one attempt; its result is returned, or its
\* error is thrown, or a retry is due.
SendRequest ==
    /\ rpc.pc = "send"
    /\ \E resp \in Responses, latency \in Latencies :
          \E aborted \in {rpc.clock + latency
                              > abortTime(rpc.clock, syncConfig.request_timeout_seconds)} :
          \E r \in {sendRequest(resp, aborted)} :
              rpc' = [rpc EXCEPT
                  !.clock = @ + latency,
                  !.attempts = Append(@, [start |-> rpc.clock, latency |-> latency,
                                          resp |-> resp, aborted |-> aborted,
                                          result |-> r]),
                  !.outcome = IF r.ok THEN Some([kind |-> "returned", value |-> r])
                              ELSE IF ~canRetry(r, rpc.attempt)
                              THEN Some([kind |-> "thrown", value |-> r])
                              ELSE None,
                  !.pc = IF r.ok \/ ~canRetry(r, rpc.attempt) THEN "done" ELSE "backoff"]
    /\ RpcFrame

\* callRpc, lines 110-121 and 101, 125: the delay, sleep(delayMs), then the
\* next attempt (or the throw after the loop).
Sleep ==
    /\ rpc.pc = "backoff"
    /\ \E rnd \in Randoms :
          \E delay \in {delayMs(rpc.attempt, rnd)} :
              rpc' = [rpc EXCEPT
                  !.sleeps = Append(@, delay),
                  !.clock = @ + delay,
                  !.attempt = @ + 1,
                  !.outcome = IF rpc.attempt + 1 <= maxAttempts THEN None
                              ELSE Some([kind |-> "thrown",
                                         value |-> Failure(FALSE, <<"Request failed after retries.">>)]),
                  !.pc = IF rpc.attempt + 1 <= maxAttempts THEN "send" ELSE "done"]
    /\ RpcFrame

\* searchRead, lines 74-95: what callRpc threw is thrown on; what it returned
\* is returned if it is an array.
SearchReadResult ==
    /\ rpc.pc = "done"
    /\ \E out \in {Get(rpc.outcome)} :
          rpc' = [rpc EXCEPT
              !.pc = "end",
              !.caller = IF out.kind = "returned" /\ out.value.message = <<"notArray">>
                         THEN Some([kind |-> "thrown",
                                    value |-> Failure(FALSE, <<"Expected search_read result array">>)])
                         ELSE Some(out)]
    /\ RpcFrame

RpcNext == CallRpc \/ SendRequest \/ Sleep \/ SearchReadResult

RpcSpec == RpcInit /\ [][RpcNext]_vars

----------------------------------------------------------------------------
(* OdooClient: authenticate, then searchRead, on one client.                 *)

\* What callRpc gives its caller for an authenticate call: an error, or the
\* result member of the response.
AuthResults ==
    {JsInt(n) : n \in (0 - 1)..MaxUid} \cup {JsHalf(1), JsFalse, JsNull, JsString("1")}
AuthOutcomes ==
    {[kind |-> "thrown", value |-> JsUndefined]}
    \cup {[kind |-> "returned", value |-> v] : v \in AuthResults}

\* authenticate, line 54
validUid(result) == IsJsInteger(result) /\ result.num > 0

authenticate_StoreFirst(uid, out) ==
    IF out.kind = "thrown" THEN [uid |-> uid, thrown |-> TRUE]
    ELSE IF ~validUid(out.value)
    THEN [uid |-> IF out.value.type = "number" THEN Some(out.value.num) ELSE uid,
          thrown |-> TRUE]
    ELSE [uid |-> Some(out.value.num), thrown |-> FALSE]

\* authenticate, lines 47-60, given what callRpc did: this.uid afterwards and
\* whether authenticate threw.
authenticate(uid, out) ==
    IF out.kind = "thrown" THEN [uid |-> uid, thrown |-> TRUE]
    ELSE IF ~validUid(out.value) THEN [uid |-> uid, thrown |-> TRUE]
    ELSE [uid |-> Some(out.value.num), thrown |-> FALSE]

ClientInit == EntityIdle /\ OuterIdle

ClientFrame ==
    UNCHANGED <<syncVars, lockStrategy, advisoryLock, proc, syncConfig, rpc,
                loader, sink, cli>>

\* authenticate(): one callRpc, then the check of the uid.
Authenticate ==
    /\ Len(client.log) < MaxCalls
    /\ \E out \in AuthOutcomes :
          \E r \in {authenticate(client.uid, out)} :
              client' = [uid |-> r.uid,
                         authenticated |->
                             IF out.kind = "returned" /\ validUid(out.value)
                             THEN Some(out.value.num) ELSE client.authenticated,
                         log |-> Append(client.log,
                             [op |-> "authenticate", sent |-> TRUE, uid |-> None,
                              before |-> client.authenticated, thrown |-> r.thrown])]
    /\ ClientFrame

\* searchRead, lines 69-71: this.uid === null
SearchReadRefused ==
    /\ Len(client.log) < MaxCalls
    /\ client.uid = None
    /\ client' = [client EXCEPT !.log = Append(@,
            [op |-> "searchRead", sent |-> FALSE, uid |-> None,
             before |-> client.authenticated, thrown |-> TRUE])]
    /\ ClientFrame

\* searchRead, lines 73-95: callRpc with this.uid among the arguments.
SearchReadSent ==
    /\ Len(client.log) < MaxCalls
    /\ client.uid # None
    /\ \E thrown \in BOOLEAN :
          client' = [client EXCEPT !.log = Append(@,
              [op |-> "searchRead", sent |-> TRUE, uid |-> client.uid,
               before |-> client.authenticated, thrown |-> thrown])]
    /\ ClientFrame

ClientNext == Authenticate \/ SearchReadRefused \/ SearchReadSent

ClientSpec == ClientInit /\ [][ClientNext]_vars

----------------------------------------------------------------------------
(* config.ts: loadConfig on the parsed YAML of one model and the lock key.   *)

DEFAULT_CURSOR_FIELD == "write_date"
DEFAULT_OVERLAP_SECONDS == 120
DEFAULT_PAGE_SIZE == 500
POSTGRES_LOCK_STRATEGIES == {"advisory", "none"}

\* The strings s with s.trim() === "" among those the model uses.
BlankStrings == {"", " "}

\* requiredString, lines 165-170: Some(string), or None when it throws.
requiredString(value) ==
    IF value.type # "string" \/ value.str \in BlankStrings THEN None
    ELSE Some(value.str)

\* requiredInteger, lines 172-177
requiredInteger(value) ==
    IF ~IsJsInteger(value) THEN None ELSE Some(value.num)

\* requiredNonNegativeInteger, lines 180-186
requiredNonNegativeInteger(value) ==
    IF requiredInteger(value) = None THEN None
    ELSE IF Get(requiredInteger(value)) < 0 THEN None
    ELSE requiredInteger(value)

requiredPositiveInteger_AllowZero(value) ==
    IF requiredInteger(value) = None THEN None
    ELSE IF Get(requiredInteger(value)) < 0 THEN None
    ELSE requiredInteger(value)

\* requiredPositiveInteger, lines 188-194
requiredPositiveInteger(value) ==
    IF requiredInteger(value) = None THEN None
    ELSE IF Get(requiredInteger(value)) <= 0 THEN None
    ELSE requiredInteger(value)

\* requiredEnum, lines 204-209
requiredEnum(value, allowedValues) ==
    IF value.type # "string" \/ value.str \notin allowedValues THEN None
    ELSE Some(value.str)

\* loadModels, lines 229-244, for one entry of models: Some(ModelConfig), or
\* None when a check throws.
loadModel(rawModel) ==
    LET cursorFieldRaw == Coalesce(rawModel.cursor_field, JsString(DEFAULT_CURSOR_FIELD))
        overlapRaw == Coalesce(rawModel.overlap_seconds, JsInt(DEFAULT_OVERLAP_SECONDS))
        pageSizeRaw == Coalesce(rawModel.page_size, JsInt(DEFAULT_PAGE_SIZE))
    IN  IF \/ requiredString(cursorFieldRaw) = None
           \/ requiredNonNegativeInteger(overlapRaw) = None
           \/ requiredPositiveInteger(pageSizeRaw) = None
        THEN None
        ELSE Some([cursor_field |-> Get(requiredString(cursorFieldRaw)),
                   overlap_seconds |-> Get(requiredNonNegativeInteger(overlapRaw)),
                   page_size |-> Get(requiredPositiveInteger(pageSizeRaw))])

\* loadConfig, lines 315-339: lock_strategy and models; None when it throws.
loadConfig(raw) ==
    LET lock == requiredEnum(Coalesce(raw.lock_strategy, JsString("advisory")),
                             POSTGRES_LOCK_STRATEGIES)
    IN  IF lock = None \/ loadModel(raw) = None THEN None
        ELSE Some([lock_strategy |-> Get(lock), model |-> Get(loadModel(raw))])

\* What a YAML file can hold for a number, a string, the lock strategy.
RawNumbers ==
    {JsUndefined, JsNull, JsInt(0 - 1), JsInt(0), JsInt(1), JsInt(2), JsHalf(1),
     JsString("500"), JsFalse}
RawCursorFields ==
    {JsUndefined, JsString("write_date"), JsString("create_date"), JsString(" "), JsInt(1)}
RawLockStrategies ==
    {JsUndefined, JsNull, JsString("advisory"), JsString("none"), JsString("table")}

LoaderInit ==
    /\ EntityIdle
    /\ lockStrategy = "advisory"
    /\ advisoryLock = 0
    /\ proc = <<>>
    /\ syncConfig = [max_retries |-> 0, backoff_base_ms |-> 1,
                     request_timeout_seconds |-> 1]
    /\ rpc = NoRpc
    /\ client = NoClient
    /\ sink = NoSink
    /\ cli = NoCli
    /\ \E raw \in [page_size : RawNumbers, overlap_seconds : RawNumbers,
                    cursor_field : RawCursorFields, lock_strategy : RawLockStrategies] :
          loader = [pc |-> "start", raw |-> raw, config |-> None]

LoaderFrame ==
    UNCHANGED <<syncVars, lockStrategy, advisoryLock, proc, syncConfig, rpc,
                client, sink, cli>>

\* main, cli: const config = await loadConfig(configPath)
LoadConfig ==
    /\ loader.pc = "start"
    /\ \E c \in {loadConfig(loader.raw)} :
          loader' = [loader EXCEPT !.config = c,
                                   !.pc = IF c = None THEN "failed" ELSE "loaded"]
    /\ LoaderFrame

\* main, cli: with the configuration loaded, the client authenticates and
\* the runner starts.
StartSync ==
    /\ loader.pc = "loaded"
    /\ loader' = [loader EXCEPT !.pc = "sync"]
    /\ LoaderFrame

\* main().catch: the error of loadConfig ends the process with exit code 1.
LoadFailed ==
    /\ loader.pc = "failed"
    /\ loader' = [loader EXCEPT !.pc = "exit"]
    /\ LoaderFrame

LoaderNext == LoadConfig \/ StartSync \/ LoadFailed

LoaderSpec == LoaderInit /\ [][LoaderNext]_vars

----------------------------------------------------------------------------
(* RawRecordStore.upsertBatch called on any batch.                           *)

\* The strings matching /^\d+$/ among those the model uses, with their
\* Number.parseInt(s, 10).
DigitStrings == ("2" :> 2) @@ ("03" :> 3)

\* Values of record.id: integers, digit strings, and values that are neither.
IdValues ==
    {JsInt(1), JsInt(2), JsString("2"), JsString("03"),
     JsHalf(1), JsFalse, JsUndefined, JsString("x7"), JsString("")}

\* parseRecordId, raw-record-store.ts lines 19-30: Some(id), or None when it throws.
parseRecordId(idValue) ==
    IF IsJsInteger(idValue) THEN Some(idValue.num)
    ELSE IF idValue.type = "string" /\ idValue.str \in DOMAIN DigitStrings
    THEN Some(DigitStrings[idValue.str])
    ELSE None

\* The row of one record in the VALUES list.
RawRowOf(record, id, run) ==
    [odoo_id |-> id,
     write_date |-> normalizeOdooTimestamp(record.write_date),
     payload |-> record,
     run_id |-> run]

\* The INSERT ... ON CONFLICT (model, odoo_id) DO UPDATE statement.
upsertRows(table, new) ==
    {row \in table : \A n \in new : n.odoo_id # row.odoo_id} \cup new

\* An upsertBatch that inserts record by record until one is invalid.
upsertBatchCall_Partial(table, recs, run) ==
    LET bad == {i \in 1..Len(recs) : parseRecordId(recs[i].id) = None}
        good == {i \in 1..Len(recs) : \A j \in bad : i < j}
    IN  [thrown |-> bad # {},
         table |-> upsertRows(table,
                       {RawRowOf(recs[i], Get(parseRecordId(recs[i].id)), run) : i \in good}),
         count |-> IF bad = {} THEN Len(recs) ELSE 0]

\* RawRecordStore.upsertBatch, lines 33-80: the values are built for all
\* records (parseRecordId may throw), then one statement is sent.
upsertBatchCall(table, recs, run) ==
    IF Len(recs) = 0 THEN [thrown |-> FALSE, table |-> table, count |-> 0]
    ELSE IF \E i \in 1..Len(recs) : parseRecordId(recs[i].id) = None
    THEN [thrown |-> TRUE, table |-> table, count |-> 0]
    ELSE [thrown |-> FALSE,
          table |-> upsertRows(table,
                        {RawRowOf(recs[i], Get(parseRecordId(recs[i].id)), run)
                            : i \in 1..Len(recs)}),
          count |-> Len(recs)]

\* Records of a page: any id value, a cursor value or false.
SinkRecords == [id : IdValues, write_date : {FalseValue, 1}]

\* Batches of up to MaxBatch records; the ids that resolve are distinct, as
\* the ids of the records of one model are.
SinkBatchesOfLen(n) ==
    {b \in [1..n -> SinkRecords] :
        \A i, j \in 1..n :
            (i # j /\ parseRecordId(b[i].id) # None)
                => parseRecordId(b[i].id) # parseRecordId(b[j].id)}
SinkBatches == UNION {SinkBatchesOfLen(n) : n \in 0..MaxBatch}

\* The table before the call: empty, or rows of an earlier run.
SinkTables ==
    {{}, {RawRowOf([id |-> JsInt(i), write_date |-> 1], i, 1) : i \in 2..3}}

SinkInit ==
    /\ EntityIdle
    /\ lockStrategy = "advisory"
    /\ advisoryLock = 0
    /\ proc = <<>>
    /\ syncConfig = [max_retries |-> 0, backoff_base_ms |-> 1,
                     request_timeout_seconds |-> 1]
    /\ rpc = NoRpc
    /\ client = NoClient
    /\ loader = NoLoader
    /\ cli = NoCli
    /\ \E t \in SinkTables, b \in SinkBatches :
          sink = [NoSink EXCEPT !.pc = "call", !.table = t, !.before = t, !.batch = b]

\* upsertBatch(client, model, records, runId) with runId 2
UpsertBatchCall ==
    /\ sink.pc = "call"
    /\ \E r \in {upsertBatchCall(sink.table, sink.batch, 2)} :
          sink' = [sink EXCEPT !.pc = "done", !.table = r.table,
                               !.thrown = r.thrown, !.count = r.count]
    /\ UNCHANGED <<syncVars, lockStrategy, advisoryLock, proc, syncConfig, rpc,
                   client, loader, cli>>

SinkNext == UpsertBatchCall

SinkSpec == SinkInit /\ [][SinkNext]_vars

----------------------------------------------------------------------------
(* cli.ts main: one process.  authenticate, then SyncRunner.run over        *)
(* config.models; every remote call goes through callRpc, and a request is  *)
(* in flight from the moment fetch is called until its promise settles.     *)
(* The records of an entity are counted, not told apart.                    *)

\* The session of this process in Postgres, and that of another process.
Self == 1
Other == 2

\* No remote call under way.
NoCall == [method |-> "none", state |-> "none", attempt |-> 0, outcome |-> None]

\* main, lines 42-67: the configuration is loaded and the pool made.
NewCli(pageSize, remote) ==
    [pc |-> "main", call |-> NoCall, inflight |-> 0, sent |-> 0,
     uid |-> None, lockAcquired |-> FALSE, idx |-> 1,
     page_size |-> pageSize, remote |-> remote,
     left |-> 0, page |-> 0, txOpen |-> FALSE, curRun |-> 0,
     failedModels |-> <<>>, failures |-> 0, pending |-> "return", exit |-> None,
     fetches |-> 0, commits |-> 0, rollbacks |-> 0, pages |-> 0, runs |-> <<>>,
     denied |-> None, overlap |-> FALSE]

MainInit ==
    /\ EntityIdle
    /\ client = NoClient /\ loader = NoLoader /\ sink = NoSink
    /\ lockStrategy = "advisory"
    /\ advisoryLock \in {0, Other}
    /\ proc = <<>>
    /\ syncConfig \in [max_retries : 0..1, backoff_base_ms : {1},
                       request_timeout_seconds : {1}]
    /\ rpc = NoRpc
    /\ cli \in {NewCli(s, r) : s \in PageSizes, r \in [Models -> 0..MaxRemote]}

\* What no step of main changes in this view.
MainFrame ==
    UNCHANGED <<model, upstream, rawRecords, syncState, pc, runId, windowStart,
                pageCursor, records, maxCursor, tx, errorMessage, hist,
                lockStrategy, proc, syncConfig, rpc, client, loader, sink>>

\* callRpc, lines 98-101: a call of the given method starts with attempt 1.
callRpc(method) ==
    [method |-> method, state |-> "ready", attempt |-> 1, outcome |-> None]

\* What is on record when the remote first refuses the credentials.
Denial(c) ==
    [method |-> c.call.method, sent |-> c.sent, locked |-> c.lockAcquired,
     runs |-> Len(syncRuns), pages |-> c.pages]

\* main, line 71: odooClient.authenticate() calls callRpc.
MainAuthenticate ==
    /\ cli.pc = "main"
    /\ cli' = [cli EXCEPT !.call = callRpc("authenticate"), !.pc = "authenticate"]
    /\ UNCHANGED <<advisoryLock, syncRuns>>
    /\ MainFrame

\* sendRequest, lines 131-145: fetch(...) is called; the request is in flight.
MainFetch ==
    /\ cli.call.state = "ready"
    /\ cli' = [cli EXCEPT !.call.state = "inflight", !.inflight = @ + 1,
                          !.sent = @ + 1,
                          !.overlap = @ \/ cli.inflight > 0 \/ cli.txOpen]
    /\ UNCHANGED <<advisoryLock, syncRuns>>
    /\ MainFrame

\* sendRequest, lines 146-176, and callRpc, lines 102-108: the request
\* settles; its result is returned, its error thrown, or a retry is due.
MainSettle ==
    /\ cli.call.state = "inflight"
    /\ \E resp \in Responses, aborted \in BOOLEAN :
          \E r \in {sendRequest(resp, aborted)} :
              cli' = [cli EXCEPT
                  !.inflight = @ - 1,
                  !.call.state = IF r.ok \/ ~canRetry(r, cli.call.attempt)
                                 THEN "done" ELSE "backoff",
                  !.call.outcome = IF r.ok THEN Some([kind |-> "returned", value |-> r])
                                   ELSE IF ~canRetry(r, cli.call.attempt)
                                   THEN Some([kind |-> "thrown", value |-> r])
                                   ELSE None,
                  !.denied = IF cli.denied = None /\ ~r.ok
                                /\ r.message[1] = "Authentication/authorization failed with HTTP"
                             THEN Some(Denial(cli)) ELSE @]
    /\ UNCHANGED <<advisoryLock, syncRuns>>
    /\ MainFrame

\* callRpc, lines 110-121: sleep(delayMs) is over, the next attempt.
MainSleep ==
    /\ cli.call.state = "backoff"
    /\ cli' = [cli EXCEPT !.call.state = "ready", !.call.attempt = @ + 1]
    /\ UNCHANGED <<advisoryLock, syncRuns>>
    /\ MainFrame

\* authenticate, lines 54-59, and main, lines 71-72 and 87-89: the uid is
\* checked; an error goes to the finally block of main.
MainAuthenticated ==
    /\ cli.pc = "authenticate"
    /\ cli.call.state = "done"
    /\ \E result \in AuthResults :
          \E out \in {IF Get(cli.call.outcome).kind = "thrown"
                      THEN [kind |-> "thrown", value |-> JsUndefined]
                      ELSE [kind |-> "returned", value |-> result]} :
          \E r \in {authenticate(cli.uid, out)} :
              cli' = [cli EXCEPT
                  !.call = NoCall,
                  !.uid = r.uid,
                  !.denied = IF cli.denied = None /\ out.kind = "returned" /\ r.thrown
                             THEN Some(Denial(cli)) ELSE @,
                  !.pending = IF r.thrown THEN "throw" ELSE "return",
                  !.pc = IF r.thrown THEN "poolEnd" ELSE "tryLock"]
    /\ UNCHANGED <<advisoryLock, syncRuns>>
    /\ MainFrame

\* run, lines 98-122: the lock client, SELECT pg_try_advisory_lock.
MainTryLock ==
    /\ cli.pc = "tryLock"
    /\ \E result \in {pg_try_advisory_lock(advisoryLock, Self)} :
          /\ advisoryLock' = result.lock
          /\ cli' = [cli EXCEPT
                 !.lockAcquired = lockAcquiredOf(result),
                 !.pc = IF lockAcquiredOf(result) THEN "loop" ELSE "finally"]
    /\ UNCHANGED syncRuns
    /\ MainFrame

\* run, lines 129-130: runModel is called for the next model.
MainRunModel ==
    /\ cli.pc = "loop"
    /\ cli.idx \in Models
    /\ cli' = [cli EXCEPT !.pc = "startRun"]
    /\ UNCHANGED <<advisoryLock, syncRuns>>
    /\ MainFrame

\* run, lines 136-138: the loop is over; throw when a model failed.
MainLoopEnd ==
    /\ cli.pc = "loop"
    /\ cli.idx \notin Models
    /\ cli' = [cli EXCEPT
           !.pending = IF Len(cli.failedModels) > 0 THEN "throw" ELSE "return",
           !.pc = "finally"]
    /\ UNCHANGED <<advisoryLock, syncRuns>>
    /\ MainFrame

\* runModel, lines 148-151, and syncModel, lines 168-188: startRun, then
\* getState and the window of the run.
MainStartRun ==
    /\ cli.pc = "startRun"
    /\ syncRuns' = startRun(syncRuns, Len(syncRuns) + 1)
    /\ cli' = [cli EXCEPT
           !.curRun = Len(syncRuns) + 1, !.runs = Append(@, cli.idx),
           !.left = cli.remote[cli.idx], !.fetches = 0, !.commits = 0,
           !.pc = "searchRead"]
    /\ UNCHANGED advisoryLock
    /\ MainFrame

\* startRun throws, outside the try block of runModel.
MainStartRunFails ==
    /\ cli.pc = "startRun"
    /\ cli' = Escapes(cli)
    /\ UNCHANGED <<advisoryLock, syncRuns>>
    /\ MainFrame

\* syncModel, lines 191-193: searchRead calls callRpc.
MainSearchRead ==
    /\ cli.pc = "searchRead"
    /\ cli.call.state = "none"
    /\ cli' = [cli EXCEPT !.call = callRpc("search_read"), !.fetches = @ + 1]
    /\ UNCHANGED <<advisoryLock, syncRuns>>
    /\ MainFrame

\* searchRead, lines 91-95, and syncModel, lines 195-203: the page; an
\* empty one ends the loop, a record without id or cursor is an error,
\* otherwise BEGIN.
MainPage ==
    /\ cli.pc = "searchRead"
    /\ cli.call.state = "done"
    /\ \E out \in {Get(cli.call.outcome)}, malformed \in BOOLEAN :
          \E n \in {Min(cli.left, cli.page_size)} :
              cli' = [cli EXCEPT
                  !.call = NoCall,
                  !.page = IF out.kind = "returned" THEN n ELSE 0,
                  !.pages = IF out.kind = "returned" THEN @ + 1 ELSE @,
                  !.txOpen = out.kind = "returned" /\ out.value.message # <<"notArray">>
                             /\ n > 0 /\ ~malformed,
                  !.pc = IF out.kind = "thrown" \/ out.value.message = <<"notArray">>
                            \/ (n > 0 /\ malformed)
                         THEN "finishFailed"
                         ELSE IF n = 0 THEN "finishSuccess" ELSE "commit"]
    /\ UNCHANGED <<advisoryLock, syncRuns>>
    /\ MainFrame

\* syncModel, lines 205-242: the statements of the page and COMMIT; after a
\* short page the loop ends.
MainCommit ==
    /\ cli.pc = "commit"
    /\ cli' = [cli EXCEPT
           !.txOpen = FALSE, !.commits = @ + 1, !.left = @ - cli.page,
           !.pc = IF cli.page < cli.page_size THEN "finishSuccess" ELSE "searchRead"]
    /\ UNCHANGED <<advisoryLock, syncRuns>>
    /\ MainFrame

\* syncModel, lines 222-229: a statement of the page throws; ROLLBACK.
MainRollback ==
    /\ cli.pc = "commit"
    /\ cli' = [cli EXCEPT !.txOpen = FALSE, !.rollbacks = @ + 1,
                          !.pc = "finishFailed"]
    /\ UNCHANGED <<advisoryLock, syncRuns>>
    /\ MainFrame

\* runModel, lines 155-158: markLastSuccessRun, finishRun(runId, "success").
MainFinishRunSuccess ==
    /\ cli.pc = "finishSuccess"
    /\ syncRuns' = finishRun(syncRuns, cli.curRun, "success", None)
    /\ cli' = Returned(cli, TRUE)
    /\ UNCHANGED advisoryLock
    /\ MainFrame

\* markLastSuccessRun or finishRun(runId, "success") throws.
MainFinishRunSuccessFails ==
    /\ cli.pc = "finishSuccess"
    /\ cli' = [cli EXCEPT !.pc = "finishFailed"]
    /\ UNCHANGED <<advisoryLock, syncRuns>>
    /\ MainFrame

\* runModel, lines 159-163: finishRun(runId, "failed", message).
MainFinishRunFailed ==
    /\ cli.pc = "finishFailed"
    /\ syncRuns' = finishRun(syncRuns, cli.curRun, "failed", Some("error"))
    /\ cli' = Returned(cli, FALSE)
    /\ UNCHANGED advisoryLock
    /\ MainFrame

\* A catch block that swallows the error of finishRun: runModel returns false.
MainFinishRunFailedFails_Swallow ==
    /\ cli.pc = "finishFailed"
    /\ cli' = Returned(cli, FALSE)
    /\ UNCHANGED <<advisoryLock, syncRuns>>
    /\ MainFrame

\* finishRun(runId, "failed", message) throws inside the catch block.
MainFinishRunFailedFails ==
    /\ cli.pc = "finishFailed"
    /\ cli' = Escapes(cli)
    /\ UNCHANGED <<advisoryLock, syncRuns>>
    /\ MainFrame

\* run, lines 139-144: the finally block.
MainFinally ==
    /\ cli.pc = "finally"
    /\ advisoryLock' = IF cli.lockAcquired
                       THEN pg_advisory_unlock(advisoryLock, Self) ELSE advisoryLock
    /\ cli' = [cli EXCEPT !.pc = "poolEnd"]
    /\ UNCHANGED syncRuns
    /\ MainFrame

\* main, lines 87-97: pool.end(), and the exit code of the process.
MainExit ==
    /\ cli.pc = "poolEnd"
    /\ cli' = [cli EXCEPT
           !.exit = Some(exitCode(IF cli.pending = "throw" THEN "thrown" ELSE "returned")),
           !.pc = "exit"]
    /\ UNCHANGED <<advisoryLock, syncRuns>>
    /\ MainFrame

MainNext ==
    \/ MainAuthenticate
    \/ MainFetch
    \/ MainSettle
    \/ MainSleep
    \/ MainAuthenticated
    \/ MainTryLock
    \/ MainRunModel
    \/ MainLoopEnd
    \/ MainStartRun
    \/ MainStartRunFails
    \/ MainSearchRead
    \/ MainPage
    \/ MainCommit
    \/ MainRollback
    \/ MainFinishRunSuccess
    \/ MainFinishRunSuccessFails
    \/ MainFinishRunFailed
    \/ MainFinishRunFailedFails
    \/ MainFinally
    \/ MainExit

MainSpec == MainInit /\ [][MainNext]_vars

----------------------------------------------------------------------------
(* Properties *)

CurrentRun == syncRuns[runId]

\* The records of the first k pages received in the current run.
RecsOfPages(k) ==
    UNION {{hist.pages[j][i] : i \in 1..Len(hist.pages[j])} : j \in 1..k}

RECURSIVE CountRecs(_)
CountRecs(k) == IF k = 0 THEN 0 ELSE Len(hist.pages[k]) + CountRecs(k - 1)

\* The greatest (cursor, id) among the records of a page, as stored in
\* odoo_sync_state.
PagePos(page) ==
    LET S == {page[i] : i \in 1..Len(page)}
        top == CHOOSE r \in S : \A o \in S : ~RecLess(r, o)
    IN  CursorPoint(top[CursorField] * MicrosPerSecond, top.id)

\* The durable effects of the current run are those of its first k pages.
EffectsOfPages(k) ==
    /\ CurrentRun.pages_processed = k
    /\ CurrentRun.records_read = CountRecs(k)
    /\ CurrentRun.records_upserted = CountRecs(k)
    /\ {row.payload : row \in {r \in rawRecords : r.run_id = runId}} = RecsOfPages(k)
    /\ CheckpointPos(syncState) =
          IF k = 0 THEN CheckpointPos(hist.prev.checkpoint)
          ELSE Some(PagePos(hist.pages[k]))

\* C1. Page atomicity: in every reachable state (during a transaction, after
\* a failed statement, a failed COMMIT, a rollback or an interruption) the
\* rows, the checkpoint and the run counters that are durable are those of
\* one and the same number k of pages of the run: never the rows of a page
\* without its checkpoint or its counters, nor any other partial mix.
C1_PageAtomicity ==
    runId > 0 => \E k \in 0..Len(hist.pages) : EffectsOfPages(k)

\* C1 witness: a page was rolled back after all three of its statements had
\* run inside the transaction, and an earlier page of the run is durable.
C1_Witness ==
    /\ pc = "finishFailed"
    /\ Len(hist.pages) = 2
    /\ Len(hist.pages[2]) > 0
    /\ hist.thrown = Some("store")
    /\ CurrentRun.pages_processed = 1

\* C2. Monotonic checkpoint within a run: the checkpoint positions committed
\* by the pages of one run are strictly increasing in (cursor_value, id)
\* order, and the durable checkpoint is the last of them.
C2_MonotonicCheckpoint ==
    /\ \A i \in 1..Len(hist.commits) - 1 :
          CursorLess(hist.commits[i], hist.commits[i + 1])
    /\ Len(hist.commits) > 0 =>
          CheckpointPos(syncState) = Some(hist.commits[Len(hist.commits)])

\* C2 witness: two pages committed in one run at the same cursor value.
C2_Witness ==
    /\ Len(hist.commits) >= 2
    /\ hist.commits[1].value = hist.commits[2].value

\* The checkpoint position the current run found when it read the state.
StartPos == CheckpointPos(hist.startState)

\* Microseconds of an overlap.
OverlapMicros == model.overlap_seconds * MicrosPerSecond

\* rec lies in the window of the current run: every record when the run
\* found no checkpoint, else cursor >= checkpoint cursor value - overlap.
InWindow(rec) ==
    IsSome(StartPos) =>
        rec.write_date * MicrosPerSecond >= Get(StartPos).value - OverlapMicros

\* The raw record table holds the record as it is upstream.
Mirrored(rec) ==
    \E row \in rawRecords : row.odoo_id = rec.id /\ row.payload = rec

\* The current run has finished with success and the remote data is still
\* what it was during the run.
SucceededOnStaticData ==
    pc = "idle" /\ hist.outcome = "success" /\ ~hist.changed

\* C3. Resumability: a run that starts from a durable checkpoint P (left by
\* an interrupted or a finished run) fetches with the window start
\* P.cursor_value - overlap, and when it has succeeded the raw record table
\* holds every upstream record with cursor >= P.cursor_value - overlap, for
\* every overlap >= 0.  The remote data does not change during a run.
C3_Resumability ==
    IsSome(StartPos) =>
        /\ pc \notin {"idle", "getState"} =>
              /\ IsSome(windowStart)
              /\ Get(windowStart) * MicrosPerSecond = Get(StartPos).value - OverlapMicros
        /\ SucceededOnStaticData =>
              \A rec \in upstream :
                  rec.write_date * MicrosPerSecond >= Get(StartPos).value - OverlapMicros
                      => Mirrored(rec)

\* C3 witness: the run before was interrupted after committing page N and
\* before committing page N+1; the fresh run succeeded with overlap 0, and a
\* record shares the checkpoint's cursor value with an id above the
\* checkpoint's.
C3_Witness ==
    /\ SucceededOnStaticData
    /\ hist.prev.outcome = "crashed"
    /\ Len(hist.prev.commits) >= 1
    /\ hist.prev.failPage = Len(hist.prev.commits) + 1
    /\ IsSome(StartPos)
    /\ model.overlap_seconds = 0
    /\ \E rec \in upstream :
          /\ rec.write_date * MicrosPerSecond = Get(StartPos).value
          /\ rec.id > Get(StartPos).id

\* C4. No record skipped: after a successful run over static remote data,
\* every upstream record in the run's window (every record when there was no
\* checkpoint) was delivered in a page of the run and is in the raw record
\* table, written by this run, whatever the page size and however many
\* records share a cursor value across page boundaries.  (Every upstream
\* record carries a cursor value.)
C4_NoRecordSkipped ==
    SucceededOnStaticData =>
        \A rec \in upstream :
            InWindow(rec) =>
                /\ rec \in RecsOfPages(Len(hist.pages))
                /\ \E row \in rawRecords :
                      row.odoo_id = rec.id /\ row.payload = rec /\ row.run_id = runId

\* C4 witness: a successful run in which records with the same cursor value
\* lie on both sides of a page boundary.
C4_Witness ==
    /\ SucceededOnStaticData
    /\ Len(hist.pages) >= 2
    /\ Len(hist.pages[2]) > 0
    /\ hist.pages[1][Len(hist.pages[1])].write_date = hist.pages[2][1].write_date

\* At most one row per odoo_id.
UniqueKey(table) ==
    \A a \in table, b \in table : a.odoo_id = b.odoo_id => a = b

\* The table without the synced-at / run id metadata.
Content(table) ==
    {[odoo_id |-> row.odoo_id, write_date |-> row.write_date, payload |-> row.payload]
        : row \in table}

\* C5. Upsert idempotence: whatever upserts were committed or rolled back,
\* in this or earlier runs, the raw record table (and the table as seen
\* inside the open transaction) has at most one row per id; the durable row
\* of an id carries the payload most recently committed for it; and
\* upserting a payload a second time leaves the same rows and payloads as
\* upserting it once, only the run id of the row being refreshed.
C5_UpsertIdempotence ==
    /\ UniqueKey(rawRecords)
    /\ UniqueKey(tx.rawRecords)
    /\ {row.odoo_id : row \in rawRecords} = DOMAIN hist.delivered
    /\ \A row \in rawRecords : row.payload = hist.delivered[row.odoo_id]
    /\ \A rec \in upstream :
          LET once == upsertBatch(rawRecords, <<rec>>, 1)
              twice == upsertBatch(once, <<rec>>, 2)
          IN  /\ Content(twice) = Content(once)
              /\ Cardinality(twice) = Cardinality(once)
              /\ \A row \in twice : row.odoo_id = rec.id => row.payload = rec

\* C5 witness: a record delivered and committed in the first run was written
\* upstream, delivered again in the second run, and its row now carries the
\* new payload.
C5_Witness ==
    /\ runId = 2
    /\ Len(hist.prev.commits) >= 1
    /\ \E row \in rawRecords :
          /\ row.run_id = 2
          /\ row.payload.ver = 1
          /\ \E i \in 1..Len(hist.prev.page1) : hist.prev.page1[i].id = row.odoo_id

\* The process is inside the while loop of syncModel.
InLoop == InPage

\* C6. Termination: over a finite remote dataset that does not change
\* during the run, for every page size, the loop of syncModel ends: once a
\* searchRead is due, the loop is eventually left (an empty or short page
\* came back, or the run failed), and the cap on the number of searchRead
\* calls is never what stops it.
C6_Termination ==
    /\ (pc = "searchRead") ~> ~InLoop
    /\ [](pc = "searchRead" => hist.fetches < MaxFetches)

\* C6 witness: the loop ended on a short page after a full page, all records
\* sharing one cursor value.
C6_Witness ==
    /\ pc = "markLastSuccessRun"
    /\ Len(hist.commits) = 2
    /\ Len(hist.pages) = 2
    /\ hist.commits[1].value = hist.commits[2].value

\* The remote delivered a record of the page without an integer id.
LacksId(page) == \E i \in 1..Len(page) : ~ValidId(page[i])

\* The ids of a page, in the order of delivery.
PageIds(page) == [i \in 1..Len(page) |-> page[i].id]

\* The tie-break scenario: the run started without a checkpoint, the remote
\* holds three records (ids 1, 2, 3) with one and the same cursor value, and
\* the page size is 2.
TieScenario ==
    /\ runId > 0
    /\ CheckpointPos(hist.prev.checkpoint) = None
    /\ ~hist.changed
    /\ model.page_size = 2
    /\ Cardinality(upstream) = 3
    /\ \A a \in upstream, b \in upstream : a.write_date = b.write_date

\* T of the scenario.
TieTime == (CHOOSE r \in upstream : TRUE).write_date

\* C7. Tie-break scenario, page contents: the first page holds records 1
\* and 2 and its commit makes the checkpoint (T, 2); the second searchRead
\* is sent with the continuation write_date > T OR (write_date = T AND
\* id > 2) and nothing else, its page holds exactly record 3, and its commit
\* makes the checkpoint (T, 3).  The contents are those of pages whose
\* records the remote delivered with their ids.
C7_TieBreakPages ==
    TieScenario =>
        /\ (Len(hist.pages) >= 1 /\ ~LacksId(hist.pages[1])) =>
              PageIds(hist.pages[1]) = <<1, 2>>
        /\ Len(hist.commits) >= 1 =>
              hist.commits[1] = CursorPoint(PgTimestamptz(TieTime), 2)
        /\ Len(hist.commits) = 1 =>
              CheckpointPos(syncState) = Some(CursorPoint(PgTimestamptz(TieTime), 2))
        /\ (pc = "searchRead" /\ Len(hist.commits) = 1) =>
              buildDomain(windowStart, pageCursor) =
                  << Op("|"),
                     Leaf("write_date", ">", TieTime),
                     Op("&"),
                     Leaf("write_date", "=", TieTime),
                     Leaf("id", ">", 2) >>
        /\ (Len(hist.pages) >= 2 /\ ~LacksId(hist.pages[2])) =>
              PageIds(hist.pages[2]) = <<3>>
        /\ Len(hist.commits) >= 2 =>
              /\ hist.commits[2] = CursorPoint(PgTimestamptz(TieTime), 3)
              /\ CheckpointPos(syncState) = Some(CursorPoint(PgTimestamptz(TieTime), 3))

\* C7 witness: in the scenario the second page has just been committed.
C7_Witness ==
    /\ TieScenario
    /\ pc = "markLastSuccessRun"
    /\ Len(hist.commits) = 2

\* The run of the tie-break scenario has finished with success.
TieScenarioSucceeded ==
    TieScenario /\ pc = "idle" /\ hist.outcome = "success"

\* C8 as stated: in the tie-break scenario a third page is fetched and is
\* empty, and the run finishes with status success, records_read = 3 and
\* pages_processed = 3.
C8_ThirdPageEmpty ==
    TieScenarioSucceeded =>
        /\ Len(hist.pages) = 3
        /\ hist.pages[3] = <<>>
        /\ CurrentRun.status = "success"
        /\ CurrentRun.records_read = 3
        /\ CurrentRun.pages_processed = 3

\* C8. Tie-break scenario, final accounting: the second page (record 3) is
\* shorter than the page size, so the loop ends after its commit and no
\* third searchRead is sent; the run finishes with status success,
\* records_read = 3, records_upserted = 3 and pages_processed = 2.
C8_FinalAccounting ==
    /\ TieScenario => hist.fetches <= 2
    /\ TieScenarioSucceeded =>
          /\ hist.fetches = 2
          /\ Len(hist.pages) = 2
          /\ Len(hist.pages[2]) = 1
          /\ CurrentRun.status = "success"
          /\ CurrentRun.error_message = None
          /\ CurrentRun.records_read = 3
          /\ CurrentRun.records_upserted = 3
          /\ CurrentRun.pages_processed = 2

\* C8 witness: the run of the scenario has finished with success after two
\* pages.
C8_Witness ==
    /\ TieScenarioSucceeded
    /\ CurrentRun.pages_processed = 2

\* runModel has returned false: the catch block recorded the failure.
RunFailed == pc = "idle" /\ hist.outcome = "failed"

\* C9. Failure keeps committed progress: when a run has failed (searchRead
\* threw, a record was invalid, a statement on the store or COMMIT threw)
\* after k >= 0 pages committed, its run record has status failed and the
\* message of the error caught, the checkpoint is the max cursor position of
\* the k-th page (the position from before the run when k = 0), and the
\* rows and counters of the k pages are durable.
C9_FailureKeepsProgress ==
    RunFailed =>
        /\ CurrentRun.status = "failed"
        /\ IsSome(hist.thrown)
        /\ CurrentRun.error_message = hist.thrown
        /\ Len(hist.commits) <= Len(hist.pages)
        /\ EffectsOfPages(Len(hist.commits))
        /\ Len(hist.commits) > 0 =>
              CheckpointPos(syncState) = Some(hist.commits[Len(hist.commits)])

\* C9 witness: a run failed on a searchRead after two pages had committed,
\* on top of a checkpoint left by the run before.
C9_Witness ==
    /\ RunFailed
    /\ hist.thrown = Some("remote")
    /\ Len(hist.commits) = 2
    /\ IsSome(CheckpointPos(hist.prev.checkpoint))

\* The run before the current one failed on its second page after its first
\* page had committed.
FailedOnPage2 ==
    /\ runId > 1
    /\ hist.prev.outcome = "failed"
    /\ Len(hist.prev.commits) = 1
    /\ hist.prev.failPage = 2

\* The failed run was the first one and its data took three searchRead calls
\* (two pages of records and an empty or short third page).
OfThreePages ==
    /\ runId = 2
    /\ 2 * model.page_size <= Cardinality(upstream)
    /\ Cardinality(upstream) < 3 * model.page_size

\* The records and ids of page 1 of the failed run, and the position its
\* commit made durable.
Page1Recs == {hist.prev.page1[i] : i \in 1..Len(hist.prev.page1)}
Page1Ids == {r.id : r \in Page1Recs}
Page1Pos == hist.prev.commits[1]

\* The current run, once it has read the state, has its window start at
\* page 1's cursor value - overlap.
WindowFromPage1 ==
    (IsSome(hist.startState) /\ pc # "idle") =>
        /\ IsSome(windowStart)
        /\ Get(windowStart) * MicrosPerSecond = Page1Pos.value - OverlapMicros

\* The record with this id was delivered to the current run before the i-th
\* record of its j-th page.
DeliveredBefore(id, j, i) ==
    \E j2 \in 1..j : \E i2 \in 1..Len(hist.pages[j2]) :
        /\ hist.pages[j2][i2].id = id
        /\ j2 < j \/ i2 < i

\* Every record of the given set was delivered to the current run before
\* any record that is not of page 1 (in the pages whose records came with
\* their ids).
RefetchedFirst(recs) ==
    \A j \in 1..Len(hist.pages) : \A i \in 1..Len(hist.pages[j]) :
        (~LacksId(hist.pages[j]) /\ hist.pages[j][i].id \notin Page1Ids) =>
            \A r \in recs : DeliveredBefore(r.id, j, i)

\* The records of page 1 that lie in the window of the current run.
Page1InWindow ==
    {r \in Page1Recs :
        r.write_date * MicrosPerSecond >= Page1Pos.value - OverlapMicros}

\* C10 as stated: after a run that failed on page 2 of 3 with page 1
\* committed, the next run starts its window at page 1's cursor value minus
\* the overlap and re-fetches the records of page 1, all of them, before it
\* fetches any record beyond page 1.
C10_RefetchesPage1 ==
    (FailedOnPage2 /\ OfThreePages) =>
        /\ WindowFromPage1
        /\ RefetchedFirst(Page1Recs)

\* C10. Failed-run scenario, next run: after a run that failed on page 2
\* with page 1 committed, the checkpoint is page 1's position; the next run
\* starts its window at page 1's cursor value minus the overlap; before any
\* record beyond page 1 it re-fetches the records of page 1 whose cursor is
\* >= that window start (the record at the checkpoint position is always
\* one of them; records of page 1 with an earlier cursor are not fetched
\* again); the rows of page 1 keep their payload, and a successful run has
\* rewritten the rows of the re-fetched records.
C10_RefetchesPage1InWindow ==
    FailedOnPage2 =>
        /\ CheckpointPos(hist.prev.checkpoint) = Some(Page1Pos)
        /\ WindowFromPage1
        /\ RefetchedFirst(Page1InWindow)
        /\ \E r \in Page1InWindow :
              CursorPoint(PgTimestamptz(r.write_date), r.id) = Page1Pos
        /\ \A j \in 1..Len(hist.pages) : \A i \in 1..Len(hist.pages[j]) :
              hist.pages[j][i].id \in Page1Ids =>
                  hist.pages[j][i].write_date * MicrosPerSecond
                      >= Page1Pos.value - OverlapMicros
                  \/ hist.pages[j][i].write_date = FalseValue
        /\ \A r \in Page1Recs :
              \E row \in rawRecords : row.odoo_id = r.id /\ row.payload = r
        /\ (pc = "idle" /\ hist.outcome = "success") =>
              \A r \in Page1InWindow :
                  \E row \in rawRecords :
                      row.odoo_id = r.id /\ row.payload = r /\ row.run_id = runId

\* C10 witness: the failed run took three searchRead calls' worth of data;
\* the next run, with overlap 0, has succeeded, and a record of page 1 lay
\* before its window and still has the row the failed run wrote.
C10_Witness ==
    /\ FailedOnPage2
    /\ OfThreePages
    /\ model.overlap_seconds = 0
    /\ pc = "idle"
    /\ hist.outcome = "success"
    /\ Page1Recs # Page1InWindow
    /\ \E row \in rawRecords : row.odoo_id \in Page1Ids /\ row.run_id = 1
    /\ \E row \in rawRecords : row.odoo_id \in Page1Ids /\ row.run_id = 2

\* The invocation got past the lock step: no lock is used, or it holds it.
PassedLock(i) == lockStrategy = "none" \/ proc[i].lockAcquired

\* config.models in configured order.
AllModels == [k \in Models |-> k]

\* C11. Failure isolation between entities: an invocation of run that
\* passed the lock step and completed has attempted every configured
\* entity exactly once, in configured order, whatever failed in earlier
\* entities (a store failure in startRun or finishRun included).
C11_FailureIsolation ==
    \A i \in Inst :
        (proc[i].pc = "done" /\ PassedLock(i)) => proc[i].attempted = AllModels

\* C12. Process outcome: an invocation of run that passed the lock step
\* (its lock statements having worked) throws, and the process exits
\* non-zero, if and only if at least one entity run failed, and only after
\* all configured entities were attempted; when every entity succeeded the
\* exit code is 0.
C12_ProcessOutcome ==
    \A i \in Inst :
        (proc[i].pc = "done" /\ PassedLock(i) /\ ~proc[i].lockFault) =>
            /\ exitCode(proc[i].result) # 0 <=> proc[i].failures > 0
            /\ proc[i].result = "thrown" <=> proc[i].failures > 0
            /\ proc[i].result = "thrown" => proc[i].attempted = AllModels

\* The instance is executing the entity loop, between its first startRun
\* and its last finishRun.
InEntityLoop(i) ==
    proc[i].pc \in {"loop", "startRun", "syncModel", "finishSuccess", "finishFailed"}

\* C13. Single runner: with lock strategy advisory, at most one instance at
\* a time is executing the entity loop, and it is the one whose session
\* holds the advisory lock, for every interleaving of the instances.
C13_SingleRunner ==
    lockStrategy = "advisory" =>
        /\ Cardinality({i \in Inst : InEntityLoop(i)}) <= 1
        /\ \A i \in Inst : InEntityLoop(i) => advisoryLock = i

\* C13 witness: one instance has completed its entity loop and another one
\* is now syncing an entity, under the advisory lock.
C13_Witness ==
    /\ lockStrategy = "advisory"
    /\ \E i \in Inst, j \in Inst :
          /\ proc[i].pc = "done"
          /\ proc[i].runs # {}
          /\ proc[j].pc = "syncModel"

\* C14. Non-blocking lock contention: an instance that found the advisory
\* lock held by another goes straight to the end of run: it never holds
\* the lock, attempts no entity, creates and changes no run record, issues
\* no unlock, and run returns normally (exit code 0).
C14_LockContention ==
    \A i \in Inst :
        proc[i].contended =>
            /\ proc[i].pc \in {"finally", "done", "dead"}
            /\ ~proc[i].lockAcquired
            /\ advisoryLock # i
            /\ proc[i].attempted = <<>>
            /\ proc[i].runs = {}
            /\ proc[i].curRun = 0
            /\ proc[i].unlocks = 0
            /\ proc[i].pending = "return"
            /\ proc[i].pc = "done" =>
                  proc[i].result = "returned" /\ exitCode(proc[i].result) = 0

\* C14 witness: an instance returned on contention while the holder of the
\* lock was syncing an entity.
C14_Witness ==
    \E i \in Inst, j \in Inst :
        /\ proc[i].contended
        /\ proc[i].pc = "done"
        /\ proc[j].pc = "syncModel"
        /\ advisoryLock = j

\* C15. Lock release: an instance whose run has completed does not hold the
\* advisory lock, whether all entities succeeded, some failed or an error
\* escaped from an entity run; the lock is only ever held by an instance
\* still running; an instance that did not acquire the lock issues no
\* unlock (and one that did issues one); once the other invocations have
\* completed, an invocation at its lock step acquires the lock.
C15_LockRelease ==
    /\ \A i \in Inst :
          /\ proc[i].pc \in {"done", "dead"} => advisoryLock # i
          /\ proc[i].unlocks > 0 => proc[i].lockAcquired
          /\ proc[i].unlocks <= 1
          /\ (proc[i].pc = "done" /\ proc[i].lockAcquired) => proc[i].unlocks = 1
          /\ (proc[i].pc = "tryLock"
                 /\ \A j \in Inst \ {i} : proc[j].pc \in {"done", "dead"}) =>
                lockAcquiredOf(pg_try_advisory_lock(advisoryLock, i))
    /\ advisoryLock \in Inst \cup {0}

\* C15 witness: an instance acquired the lock, an error escaped from an
\* entity run so that run threw, and a later invocation holds the lock.
C15_Witness ==
    \E i \in Inst, j \in Inst :
        /\ proc[i].pc = "done"
        /\ proc[i].lockAcquired
        /\ proc[i].result = "thrown"
        /\ proc[i].attempted # AllModels
        /\ proc[j].pc = "loop"
        /\ advisoryLock = j

\* A step changes the status of a run record only from running to success
\* or failed, and creates run records with status running.
RunStatusStep ==
    /\ Len(syncRuns') >= Len(syncRuns)
    /\ \A r \in 1..Len(syncRuns) :
          syncRuns'[r].status # syncRuns[r].status =>
              /\ syncRuns[r].status = "running"
              /\ syncRuns'[r].status \in {"success", "failed"}
    /\ \A r \in (Len(syncRuns) + 1)..Len(syncRuns') :
          syncRuns'[r].status = "running"

\* runModel is over (the process was not interrupted) and the run record
\* has its final status.
RunFinalized ==
    (runId > 0 /\ pc = "idle" /\ hist.outcome # "crashed") =>
        CurrentRun.status \in {"success", "failed"}

\* C16. Run record life cycle: a run record is created with status
\* running; its status only changes from running to success or to failed
\* and never after that; and when runModel is over the record has been
\* finalized, also when markLastSuccessRun or a finishRun call failed.
C16_RunLifecycle == [][RunStatusStep]_vars /\ []RunFinalized

\* The attempts of the call so far, and how they failed.
Sent == Len(rpc.attempts)
CallEnded == rpc.pc \in {"done", "end"}
FailedRetryably(k) ==
    ~rpc.attempts[k].result.ok /\ rpc.attempts[k].result.retryable
FailedFatally(k) ==
    ~rpc.attempts[k].result.ok /\ ~rpc.attempts[k].result.retryable
Thrown(error) == Some([kind |-> "thrown", value |-> error])
Returned_(value) == Some([kind |-> "returned", value |-> value])

\* C17: Retry bound. A call whose every attempt fails retryably sends the
\* request exactly max_retries + 1 times, sleeps max_retries times (between
\* consecutive attempts only, never after the last one) and throws the error
\* of the last attempt; an attempt that succeeds ends the call with its
\* result, and every attempt before it failed retryably.
C17_RetryBound ==
    /\ Sent <= syncConfig.max_retries + 1
    /\ Len(rpc.sleeps) = (IF rpc.pc = "send" \/ Sent = 0 THEN Sent ELSE Sent - 1)
    /\ (CallEnded /\ \A k \in 1..Sent : FailedRetryably(k)) =>
          /\ Sent = syncConfig.max_retries + 1
          /\ Len(rpc.sleeps) = syncConfig.max_retries
          /\ rpc.outcome = Thrown(rpc.attempts[Sent].result)
    /\ \A k \in 1..Sent : rpc.attempts[k].result.ok =>
          /\ k = Sent
          /\ CallEnded
          /\ rpc.outcome = Returned_(rpc.attempts[k].result)
          /\ \A j \in 1..(k - 1) : FailedRetryably(j)

\* All retries used up, by three different retryable failures.
C17_Witness ==
    /\ rpc.pc = "done"
    /\ syncConfig.max_retries = MaxRetries
    /\ Sent = MaxRetries + 1
    /\ \A k \in 1..Sent : FailedRetryably(k)
    /\ rpc.attempts[1].result # rpc.attempts[Sent].result
    /\ rpc.outcome = Thrown(rpc.attempts[Sent].result)

\* C18: Non-retryable failures are not retried. An attempt that fails with
\* a non-retryable failure is the last attempt of its call, whatever the
\* number of retries left: the call ends at once by throwing that error, and
\* no sleep follows the attempt.
C18_NonRetryable ==
    \A k \in 1..Sent : FailedFatally(k) =>
        /\ k = Sent
        /\ CallEnded
        /\ rpc.outcome = Thrown(rpc.attempts[k].result)
        /\ Len(rpc.sleeps) = k - 1

\* The first attempt is refused with HTTP 401 while two retries remain.
C18_Witness ==
    /\ rpc.pc = "done"
    /\ syncConfig.max_retries = MaxRetries
    /\ Sent = 1
    /\ rpc.attempts[1].resp.status = 401
    /\ ~rpc.attempts[1].aborted
    /\ rpc.sleeps = <<>>

\* C19: Backoff bounds. The delay slept after failed attempt k lies in
\* [base * 2^(k-1), base * 2^(k-1) + base).
C19_BackoffBounds ==
    \A k \in 1..Len(rpc.sleeps) :
        /\ syncConfig.backoff_base_ms * Pow2(k - 1) <= rpc.sleeps[k]
        /\ rpc.sleeps[k] < syncConfig.backoff_base_ms * Pow2(k - 1)
                              + syncConfig.backoff_base_ms

\* Two sleeps with base 3: the first without jitter, the second with the
\* largest jitter.
C19_Witness ==
    /\ syncConfig.backoff_base_ms = MaxBackoffBase
    /\ Len(rpc.sleeps) = 2
    /\ rpc.sleeps[1] = MaxBackoffBase
    /\ rpc.sleeps[2] = 2 * MaxBackoffBase + MaxBackoffBase - 1

\* The failure of a request, as the caller of searchRead sees it: the
\* attempt failed in sendRequest, or its result was refused by searchRead.
Malformed(a) ==
    /\ a.resp.net = "ok" /\ ~a.aborted
    /\ a.resp.status = 200
    /\ a.resp.body \in {"unparsable", "null", "notArray"}
TimeoutMs == syncConfig.request_timeout_seconds * MillisPerSecond

\* C20: Failure classification. A request that meets a network failure,
\* exceeds its own timeout, is answered with a 5xx status or with a
\* malformed response fails with a retryable failure; one answered with 401
\* or 403 or with a JSON-RPC error fails with a non-retryable failure. The
\* timeout of an attempt runs from the start of that attempt.
C20_Classification ==
    \A k \in 1..Sent :
        \E a \in {rpc.attempts[k]} :
            /\ a.aborted <=> (a.latency > TimeoutMs)
            /\ (a.resp.net = "error" \/ a.latency > TimeoutMs) => FailedRetryably(k)
            /\ (a.resp.net = "ok" /\ ~a.aborted /\ a.resp.status >= 500) => FailedRetryably(k)
            /\ Malformed(a) => FailedRetryably(k)
            /\ (a.resp.net = "ok" /\ ~a.aborted /\ a.resp.status \in {401, 403})
                  => FailedFatally(k)
            /\ (a.resp.net = "ok" /\ ~a.aborted /\ a.resp.status = 200
                  /\ a.resp.body = "error") => FailedFatally(k)

\* C21: Authenticate before reads. A searchRead on a client on which no
\* authenticate has succeeded throws without sending a request; an
\* authenticate that fails (an error, or a uid that is not a positive
\* integer) leaves the uid of the client as it was, null when none succeeded
\* before; a searchRead after a successful authenticate sends the uid of the
\* latest successful one.
C21_AuthenticateFirst ==
    /\ client.uid = client.authenticated
    /\ \A k \in 1..Len(client.log) :
          \E e \in {client.log[k]} :
              e.op = "searchRead" =>
                  /\ e.before = None => (~e.sent /\ e.thrown)
                  /\ e.before # None => (e.sent /\ e.uid = e.before)

\* A failed authenticate (uid 0), a refused searchRead, a successful
\* authenticate and a searchRead that sends its uid.
C21_Witness ==
    /\ Len(client.log) = 4
    /\ client.log[1].op = "authenticate" /\ client.log[1].thrown
    /\ client.log[2].op = "searchRead" /\ ~client.log[2].sent
    /\ client.log[3].op = "authenticate" /\ ~client.log[3].thrown
    /\ client.log[4].op = "searchRead" /\ client.log[4].uid = Some(MaxUid)

\* The id value is an integer number or a string of decimal digits.
IntegerId(v) ==
    \/ v.type = "number" /\ v.whole
    \/ v.type = "string" /\ v.str \in {"2", "03"}
IdOf(v) == IF v.type = "number" THEN v.num ELSE IF v.str = "2" THEN 2 ELSE 3

\* C22: Sink batch is all-or-nothing. When some record of the batch has an
\* id that is not an integer, upsertBatch throws and the table is as before
\* the call, wherever the record is in the batch; when all records have one,
\* the call returns the length of the batch, each record has its row with the
\* payload and the run id of the call, and the rows of other ids are as before.
C22_BatchAllOrNothing ==
    sink.pc = "done" =>
        IF \E i \in 1..Len(sink.batch) : ~IntegerId(sink.batch[i].id)
        THEN sink.thrown /\ sink.table = sink.before
        ELSE /\ ~sink.thrown
             /\ sink.count = Len(sink.batch)
             /\ \A i \in 1..Len(sink.batch) :
                   \E row \in sink.table :
                       /\ row.odoo_id = IdOf(sink.batch[i].id)
                       /\ row.payload = sink.batch[i]
                       /\ row.run_id = 2
             /\ \A row \in sink.table :
                   \/ row \in sink.before
                   \/ \E i \in 1..Len(sink.batch) : row.odoo_id = IdOf(sink.batch[i].id)
             /\ \A row \in sink.before :
                   \/ row \in sink.table
                   \/ \E i \in 1..Len(sink.batch) : row.odoo_id = IdOf(sink.batch[i].id)
             /\ Cardinality({row.odoo_id : row \in sink.table}) = Cardinality(sink.table)

\* A batch of three whose last record alone is invalid, on a table with rows.
C22_Witness ==
    /\ sink.pc = "done"
    /\ Len(sink.batch) = MaxBatch
    /\ IntegerId(sink.batch[1].id) /\ IntegerId(sink.batch[2].id)
    /\ ~IntegerId(sink.batch[3].id)
    /\ sink.before # {}
    /\ sink.thrown /\ sink.table = sink.before

\* The key is absent from the YAML, or present without a value.
Omitted(v) == v.type \in {"undefined", "null"}
Accepted == loader.pc \in {"loaded", "sync"}
WholeNumber(v) == v.type = "number" /\ v.whole

\* C23: Descriptor invariants. A descriptor the loader accepts has an
\* integer page size > 0 and an integer overlap >= 0; a page size or overlap
\* that is given and is not an integer, a page size <= 0 and an overlap < 0
\* make loadConfig throw, and then no sync starts; an omitted cursor field
\* becomes write_date, an omitted overlap 120, an omitted page size 500 and
\* an omitted lock strategy advisory.
C23_DescriptorInvariants ==
    /\ Accepted =>
          \E c \in {Get(loader.config)} :
              /\ c.model.page_size \in Nat /\ c.model.page_size > 0
              /\ c.model.overlap_seconds \in Nat
              /\ c.model.page_size =
                    (IF Omitted(loader.raw.page_size) THEN 500 ELSE loader.raw.page_size.num)
              /\ c.model.overlap_seconds =
                    (IF Omitted(loader.raw.overlap_seconds) THEN 120
                     ELSE loader.raw.overlap_seconds.num)
              /\ Omitted(loader.raw.cursor_field) => c.model.cursor_field = "write_date"
              /\ Omitted(loader.raw.lock_strategy) => c.lock_strategy = "advisory"
    /\ (/\ loader.pc \notin {"none", "start"}
        /\ \/ ~Omitted(loader.raw.page_size)
              /\ (~WholeNumber(loader.raw.page_size) \/ loader.raw.page_size.num <= 0)
           \/ ~Omitted(loader.raw.overlap_seconds)
              /\ (~WholeNumber(loader.raw.overlap_seconds)
                    \/ loader.raw.overlap_seconds.num < 0))
          => loader.pc \in {"failed", "exit"} /\ loader.config = None

\* A descriptor that gives nothing is accepted with all four defaults, and
\* the sync starts.
C23_Witness ==
    /\ loader.pc = "sync"
    /\ \A f \in DOMAIN loader.raw : loader.raw[f] = JsUndefined
    /\ Get(loader.config).model =
          [cursor_field |-> "write_date", overlap_seconds |-> 120, page_size |-> 500]
    /\ Get(loader.config).lock_strategy = "advisory"

\* The page holds a record without a valid id or without a valid cursor value.
MalformedPage(page) ==
    \E i \in 1..Len(page) : page[i].id = FalseValue \/ page[i].write_date = FalseValue

\* C24: Malformed page is a hard stop. A fetched page with a record that
\* lacks a valid id or cursor value is the last page the run fetches; the
\* run is failing with the validation error from the moment the page is
\* received, no transaction is open, and the rows, the checkpoint and the
\* counters of the run are those of the pages before it (none of its
\* records, valid or not, is written); once runModel has returned, the run
\* record has status failed and the message of the validation error.
C24_MalformedPageStops ==
    \A k \in 1..Len(hist.pages) : MalformedPage(hist.pages[k]) =>
        /\ k = Len(hist.pages)
        /\ hist.fetches = k
        /\ hist.thrown = Some("validation")
        /\ pc \in {"finishFailed", "idle"}
        /\ tx = NoTx
        /\ Len(hist.commits) = k - 1
        /\ EffectsOfPages(k - 1)
        /\ \A i \in 1..Len(hist.pages[k]) :
              \A row \in rawRecords :
                  row.run_id = runId => row.payload # hist.pages[k][i]
        /\ RunFailed =>
              /\ CurrentRun.status = "failed"
              /\ CurrentRun.error_message = Some("validation")

\* The first page of a second run has a valid first record and a second
\* record without id; the run has failed and the checkpoint of the first
\* run stands.
C24_Witness ==
    /\ RunFailed
    /\ runId = 2
    /\ Len(hist.pages) = 1
    /\ Len(hist.pages[1]) = 2
    /\ hist.pages[1][1].id # FalseValue /\ hist.pages[1][1].write_date # FalseValue
    /\ hist.pages[1][2].id = FalseValue
    /\ IsSome(hist.prev.checkpoint)
    /\ syncState = hist.prev.checkpoint

\* The lower bounds (cursor field >= value) anywhere in a domain.
LowerBounds(d) ==
    {d[i] : i \in {j \in 1..Len(d) : d[j].kind = "leaf" /\ d[j].cmp = ">="}}

\* The lower bound due to the checkpoint read at the start of the run, in
\* whole seconds as Odoo compares them.
WindowBound ==
    Leaf(model.cursor_field, ">=",
         (Get(StartPos).value - OverlapMicros) \div MicrosPerSecond)

\* C25: Window start. When the run found no checkpoint position at its
\* start, no fetch of the run carries a lower bound on the cursor field;
\* when it found one, every fetch of the run carries, as a conjunct of its
\* filter, cursor field >= that cursor value - overlap, whatever the pages
\* of the run have committed since.
C25_WindowStart ==
    \A k \in 1..Len(hist.queries) :
        IF IsSome(StartPos)
        THEN /\ hist.queries[k].domain[1] = WindowBound
             /\ LowerBounds(hist.queries[k].domain) = {WindowBound}
        ELSE LowerBounds(hist.queries[k].domain) = {}

\* The second fetch of a run that started from a checkpoint, with an
\* overlap, after its first page moved the checkpoint.
C25_Witness ==
    /\ Len(hist.queries) = 2
    /\ IsSome(StartPos)
    /\ model.overlap_seconds = 1
    /\ Len(hist.commits) = 1
    /\ CheckpointPos(syncState) # StartPos

\* The window part of a filter of the current run.
WindowPart == IF IsSome(StartPos) THEN <<WindowBound>> ELSE <<>>

\* cursor > v OR (cursor = v AND id > i), in Odoo's prefix notation.
Continuation(v, i) ==
    << Op("|"), Leaf(model.cursor_field, ">", v),
       Op("&"), Leaf(model.cursor_field, "=", v), Leaf("id", ">", i) >>

\* C26: Fetch filter. The first fetch of a run has the filter base AND
\* window bound (if any) and no continuation; fetch k > 1 has base AND
\* window bound (if any) AND (cursor > v OR (cursor = v AND id > i)) with
\* (v, i) the greatest (cursor, id) of page k - 1, which committed; every
\* fetch is ordered by cursor field asc, id asc and limited to the page size.
C26_FetchFilter ==
    \A k \in 1..Len(hist.queries) :
        /\ hist.queries[k].order = <<model.cursor_field, "id">>
        /\ hist.queries[k].limit = model.page_size
        /\ IF k = 1
           THEN hist.queries[k].domain = BaseDomain \o WindowPart
           ELSE /\ Len(hist.commits) >= k - 1
                /\ hist.commits[k - 1] = PagePos(hist.pages[k - 1])
                /\ hist.queries[k].domain =
                      BaseDomain \o WindowPart
                      \o Continuation(PagePos(hist.pages[k - 1]).value \div MicrosPerSecond,
                                      PagePos(hist.pages[k - 1]).id)

\* The third fetch of a run inside a window, after two pages of which the
\* second holds a smaller id than the first.
C26_Witness ==
    /\ Len(hist.queries) = 3
    /\ IsSome(StartPos)
    /\ Len(hist.pages) >= 2
    /\ hist.pages[2][1].id < hist.pages[1][1].id

\* Page k of the current run is durable.
PageCommitted(k) == k <= Len(hist.commits)

\* The run is past its loop: no fetch and no page transaction is under way.
PastLoop == ~InPage

\* The records of the remote that lie in the window of the current run.
WindowSize == Cardinality({r \in upstream : InWindow(r)})

\* C27: Loop exit. An empty page is the last fetch of its run and ends the
\* loop with no transaction and no error of the loop; a committed page with
\* fewer records than the page size is the last fetch too; a committed page
\* of exactly page-size records is followed by the next fetch (unless the
\* run was interrupted or COMMIT reported an error), and every page before
\* the last one is full and committed.  A successful run over a static
\* window of N records with page size S has made N div S + 1 fetches and
\* committed ceil(N / S) pages.
C27_LoopExit ==
    /\ \A k \in 1..Len(hist.pages) :
          /\ Len(hist.pages[k]) = 0 =>
                /\ k = Len(hist.pages) /\ hist.fetches = k
                /\ Len(hist.commits) = k - 1
                /\ tx = NoTx /\ PastLoop
                /\ hist.failPage = 0
          /\ (Len(hist.pages[k]) \in 1..(model.page_size - 1) /\ PageCommitted(k)) =>
                /\ k = Len(hist.pages) /\ hist.fetches = k
                /\ PastLoop
          /\ (Len(hist.pages[k]) = model.page_size /\ PageCommitted(k)
                /\ k = Len(hist.pages) /\ pc \notin {"idle", "finishFailed"}) =>
                pc = "searchRead"
          /\ k < Len(hist.pages) =>
                Len(hist.pages[k]) = model.page_size /\ PageCommitted(k)
    /\ SucceededOnStaticData =>
          /\ hist.fetches = WindowSize \div model.page_size + 1
          /\ Len(hist.commits) = (WindowSize + model.page_size - 1) \div model.page_size

\* A successful run of two full pages and an empty third fetch.
C27_Witness ==
    /\ SucceededOnStaticData
    /\ model.page_size = 1
    /\ WindowSize = 2
    /\ hist.fetches = 3
    /\ Len(hist.pages[3]) = 0
    /\ Len(hist.commits) = 2

\* The three counters of a run record.
Counters(run) == <<run.records_read, run.records_upserted, run.pages_processed>>

\* In every run record the counters agree with pages of 1..page_size records.
CountersInRange ==
    \A i \in 1..Len(syncRuns) :
        /\ syncRuns[i].records_upserted = syncRuns[i].records_read
        /\ syncRuns[i].pages_processed <= syncRuns[i].records_read
        /\ syncRuns[i].records_read <= syncRuns[i].pages_processed * model.page_size

\* A step leaves the counters of a run record alone, or it is the commit of
\* the current page of the current run and adds (n, n, 1), n > 0 the number
\* of records of the page.
CountersStep ==
    \A i \in 1..Len(syncRuns) :
        \/ Counters(syncRuns'[i]) = Counters(syncRuns[i])
        \/ /\ i = runId /\ pc = "commit" /\ Len(records) > 0
           /\ Counters(syncRuns'[i]) =
                 <<syncRuns[i].records_read + Len(records),
                   syncRuns[i].records_upserted + Len(records),
                   syncRuns[i].pages_processed + 1>>

\* C28: Run counters. The counters of a run record change only when a page
\* of that run commits, by (records of the page, records of the page, 1);
\* an empty or rolled-back page changes nothing and no counter is replaced
\* or decreased; so always records_upserted = records_read and
\* pages_processed <= records_read <= pages_processed * page_size.
C28_RunCounters == []CountersInRange /\ [][CountersStep]_vars

\* Two pages of one record committed and a third page rolled back.
C28_Witness ==
    /\ RunFailed
    /\ model.page_size = 1
    /\ Len(hist.pages) = 3
    /\ Len(hist.pages[3]) = 1
    /\ hist.thrown = Some("store")
    /\ Counters(CurrentRun) = <<2, 2, 2>>

\* The last-successful-run id of a row of odoo_sync_state.
Marker(st) == IF IsSome(st) THEN Get(st).last_success_run_id ELSE None

\* The checkpoint position changes only with the commit of a page, to the
\* greatest (cursor, id) of that page.
PositionStep ==
    CheckpointPos(syncState') # CheckpointPos(syncState) =>
        /\ pc = "commit"
        /\ CheckpointPos(syncState') = Some(PagePos(records))

\* The last-successful-run id changes only in markLastSuccessRun, after the
\* loop ended without error and outside a transaction, to the current run,
\* with the position left alone.
MarkerStep ==
    Marker(syncState') # Marker(syncState) =>
        /\ pc = "markLastSuccessRun"
        /\ tx = NoTx
        /\ hist.thrown = None
        /\ Marker(syncState') = Some(runId)
        /\ CheckpointPos(syncState') = CheckpointPos(syncState)

\* No step deletes the checkpoint row.
NeverDeleted == IsSome(syncState) => IsSome(syncState')

\* No run recorded as failed is the last successful run.
FailedRunsUnmarked ==
    \A i \in 1..Len(syncRuns) :
        syncRuns[i].status = "failed" => Marker(syncState) # Some(i)

\* C29: Checkpoint position is changed only by page commits. The position
\* changes only by the commit of a page; markLastSuccessRun runs only after
\* the loop completed without error, outside any page transaction, sets the
\* last-successful-run id to the current run and leaves the position; a
\* failed run never changes the last-successful-run id; no step deletes the
\* checkpoint.
C29_CheckpointFrame ==
    [][PositionStep /\ MarkerStep /\ NeverDeleted]_vars /\ []FailedRunsUnmarked

\* The run in progress read a checkpoint recorded under another cursor field.
Mismatch ==
    /\ pc # "idle"
    /\ IsSome(hist.startState)
    /\ Get(hist.startState).cursor_field # model.cursor_field

\* The fields other than id that a domain filters on.
FilterFields(d) ==
    {d[i].field : i \in {j \in 1..Len(d) : d[j].kind = "leaf"}} \ {"id"}

\* C30: Cursor field mismatch. A run that reads a checkpoint recorded under
\* another cursor field than the configured one is not failed for it (an
\* error it meets is one of the remote, the store or a record); each of its
\* fetches filters on and orders by the configured field; the window bound
\* is the stored cursor value minus the overlap; the checkpoint keeps the
\* stored field until the first page commits and has the configured field
\* from then on.
C30_CursorFieldMismatch ==
    Mismatch =>
        /\ hist.thrown \in {None, Some("remote"), Some("store"), Some("validation")}
        /\ \A k \in 1..Len(hist.queries) :
              /\ FilterFields(hist.queries[k].domain) \subseteq {model.cursor_field}
              /\ hist.queries[k].order = <<model.cursor_field, "id">>
              /\ IsSome(StartPos) => hist.queries[k].domain[1] = WindowBound
        /\ Get(syncState).cursor_field =
              (IF Len(hist.commits) = 0 THEN Get(hist.startState).cursor_field
               ELSE model.cursor_field)

\* A run configured for create_date on a checkpoint recorded under
\* write_date has ended its loop after a page in which the two fields order
\* the records differently.
C30_Witness ==
    /\ Mismatch
    /\ pc = "finishSuccess"
    /\ model.cursor_field = "create_date"
    /\ Len(hist.commits) = 1
    /\ Len(hist.pages[1]) = 2
    /\ hist.pages[1][1].write_date > hist.pages[1][2].write_date
    /\ IsSome(StartPos)

\* The process went from the refusal to its exit without another step of
\* the sync: no request after the refused one, the advisory lock not taken,
\* no run record, no page, and exit code 1.
AbortedAtRefusal ==
    /\ cli.sent = Get(cli.denied).sent
    /\ ~cli.lockAcquired /\ advisoryLock # Self
    /\ Len(syncRuns) = 0
    /\ cli.pages = 0
    /\ cli.pc \in {"authenticate", "poolEnd", "exit"}
    /\ cli.pc = "exit" => cli.exit = Some(1)

\* C31: Authentication failure is fatal. Once the remote has refused the
\* credentials (HTTP 401 or 403 on any request, or no valid uid returned by
\* authenticate), the request is not retried and the process is aborted
\* before any entity sync: no advisory lock taken, no run record created, no
\* page fetched, exit with failure.
C31_AuthFailureFatal == IsSome(cli.denied) => AbortedAtRefusal

\* A search_read call of the current run is under way.
Reading == cli.call.method = "search_read" /\ cli.call.state # "done"

\* C32: Strictly serial execution within one process. At most one remote
\* request is in flight and none was sent while another was in flight or a
\* page transaction open; the k-th searchRead of a run is called only after
\* k - 1 pages of the run committed, with no transaction open; run records
\* are created for the models in configured order, each after the record of
\* the model before it was set to success or failed.
C32_SerialExecution ==
    cli.pc # "none" =>
        /\ cli.inflight <= 1
        /\ ~cli.overlap
        /\ cli.inflight = 1 <=> cli.call.state = "inflight"
        /\ cli.fetches \in {cli.commits, cli.commits + 1}
        /\ Reading => (~cli.txOpen /\ cli.fetches = cli.commits + 1)
        /\ cli.txOpen => (cli.call.state = "none" /\ cli.fetches = cli.commits + 1)
        /\ Len(cli.runs) = Len(syncRuns)
        /\ \A k \in 1..Len(cli.runs) :
              /\ cli.runs[k] = k
              /\ k < Len(cli.runs) => syncRuns[k].status \in {"success", "failed"}

\* The process has exited after two runs, the second of two committed pages
\* and the first failed, with at least one request retried.
C32_Witness ==
    /\ cli.pc = "exit"
    /\ Len(syncRuns) = 2
    /\ syncRuns[1].status = "failed"
    /\ syncRuns[2].status = "success"
    /\ cli.commits = 2
    /\ cli.sent >= 6

\* The durable checkpoint position, once there is one, is never followed by
\* a smaller one.
NotBackward ==
    IsSome(CheckpointPos(syncState)) =>
        /\ IsSome(CheckpointPos(syncState'))
        /\ ~CursorLess(Get(CheckpointPos(syncState')), Get(CheckpointPos(syncState)))

\* C33 as stated: Durable checkpoint never moves backward across runs. No
\* page commit, of whatever run, makes the durable position smaller in
\* (cursor_value, cursor_id) order than a position that was durable before.
C33_NeverBackward == [][NotBackward]_vars

\* C33: Durable checkpoint across runs. A run that found the position P
\* never leaves the checkpoint with a cursor value below P.cursor_value
\* minus the overlap, whichever of its pages committed last; and when the
\* remote data never changed, a run that succeeded leaves a position that
\* is not smaller than P.
C33_BackwardWithinOverlap ==
    IsSome(StartPos) =>
        /\ IsSome(CheckpointPos(syncState))
        /\ Get(CheckpointPos(syncState)).value >= Get(StartPos).value - OverlapMicros
        /\ (pc = "idle" /\ hist.outcome = "success" /\ hist.writes = 0) =>
              ~CursorLess(Get(CheckpointPos(syncState)), Get(StartPos))

\* A run with a positive overlap has committed a page that took the
\* checkpoint to an earlier cursor value than the one it found.
C33_Witness ==
    /\ IsSome(StartPos)
    /\ model.overlap_seconds > 0
    /\ Len(hist.commits) >= 1
    /\ Get(CheckpointPos(syncState)).value < Get(StartPos).value

\* The run record the last-successful-run id points at, if there is one.
MarkedRuns ==
    {i \in 1..Len(syncRuns) : Marker(syncState) = Some(syncRuns[i].run_id)}

\* C34: Last-successful-run marker is truthful. Whenever no run of the
\* entity is in progress and the process was not interrupted, a
\* last-successful-run id that is set is the run_id of a run record, and
\* the status of that record is success; so too after a store error between
\* markLastSuccessRun and finishRun.
C34_MarkerTruthful ==
    (pc = "idle" /\ hist.outcome # "crashed" /\ IsSome(Marker(syncState))) =>
        /\ MarkedRuns # {}
        /\ \A i \in MarkedRuns : syncRuns[i].status = "success"

\* C35: Every started run is finalized. When SyncRunner.run of an instance
\* that was not killed has returned or thrown, every run record that the
\* invocation created has status success or failed, none running.
C35_StartedRunsFinalized ==
    \A i \in DOMAIN proc :
        proc[i].pc = "done" =>
            \A r \in proc[i].runs : syncRuns[r].status \in {"success", "failed"}

\* The rows of odoo_raw_records at the checkpoint: the id is cursor_id and
\* the payload holds, in the checkpoint's cursor field, the timestamp that
\* cursor_value denotes.
RowsAtCheckpoint ==
    {row \in rawRecords :
        /\ row.odoo_id = Get(CheckpointPos(syncState)).id
        /\ PgTimestamptz(row.payload[Get(syncState).cursor_field])
               = Get(CheckpointPos(syncState)).value}

\* C36: Checkpoint points at a mirrored record. Whenever the checkpoint of
\* the entity has a cursor value, odoo_raw_records holds a row of the entity
\* with odoo_id = cursor_id whose payload has the cursor value of the
\* checkpoint in the cursor field.
C36_CheckpointMirrored ==
    IsSome(CheckpointPos(syncState)) => RowsAtCheckpoint # {}

\* A second run has rewritten the row at the checkpoint with a later version
\* of the record.
C36_Witness ==
    /\ IsSome(CheckpointPos(syncState))
    /\ pc = "idle"
    /\ \E row \in RowsAtCheckpoint : row.run_id = 2 /\ row.payload.ver = 1

\* The (cursor, id) position of a record as delivered.
RecPos(rec) == CursorPoint(PgTimestamptz(rec[CursorField]), rec.id)

\* The records of the pages of the current run: <<page, place in the page>>.
Delivered ==
    {d \in (1..Len(hist.pages)) \X (1..MaxPageSize) : d[2] <= Len(hist.pages[d[1]])}

\* C37: No record delivered twice within one run. In the pages of a run
\* (those whose records came with id and cursor) every record of a later
\* page is strictly greater in (cursor, id) order than every record of an
\* earlier page, so no id is in two pages; and a run that succeeded has
\* records_read = the number of remote records in its window.
C37_NoRecordTwice ==
    /\ \A a \in Delivered, b \in Delivered :
          (a[1] < b[1] /\ ~MalformedPage(hist.pages[a[1]])
                       /\ ~MalformedPage(hist.pages[b[1]])) =>
              /\ CursorLess(RecPos(hist.pages[a[1]][a[2]]), RecPos(hist.pages[b[1]][b[2]]))
              /\ hist.pages[a[1]][a[2]].id # hist.pages[b[1]][b[2]].id
    /\ SucceededOnStaticData => CurrentRun.records_read = WindowSize

\* A run that started from a checkpoint has succeeded after three pages, the
\* first two holding records of one cursor value.
C37_Witness ==
    /\ SucceededOnStaticData
    /\ IsSome(StartPos)
    /\ Len(hist.pages) = 3
    /\ Len(hist.pages[2]) = 1
    /\ hist.pages[1][1].write_date = hist.pages[2][1].write_date
    /\ CurrentRun.records_read = 2

\* The run in progress, or the last one, read a checkpoint row that has no
\* cursor value.
StartedFromBareRow ==
    IsSome(hist.startState) /\ ~IsSome(Get(hist.startState).cursor_value)

\* C38: Checkpoint row without a cursor counts as no checkpoint. A run that
\* found no row and succeeded without committing a page leaves a row with
\* the configured cursor field, the run as last successful run and neither
\* cursor value nor cursor id. A run that reads a row without cursor value
\* has no window start, none of its fetches carries a lower bound, the row
\* is no cause of an error, and when it has succeeded every remote record is
\* mirrored.
C38_BareRowIsNoCheckpoint ==
    /\ (pc = "idle" /\ hist.outcome = "success" /\ hist.startState = None
            /\ Len(hist.commits) = 0) =>
          syncState = Some([cursor_field |-> model.cursor_field,
                            cursor_value |-> None,
                            cursor_id |-> None,
                            last_success_run_id |-> Some(runId)])
    /\ StartedFromBareRow =>
          /\ windowStart = None
          /\ \A k \in 1..Len(hist.queries) : LowerBounds(hist.queries[k].domain) = {}
          /\ hist.thrown \in {None, Some("remote"), Some("store"), Some("validation")}
          /\ SucceededOnStaticData => \A rec \in upstream : Mirrored(rec)

\* After a first run over an empty remote, a second run that read the bare
\* row has succeeded with a record mirrored.
C38_Witness ==
    /\ StartedFromBareRow
    /\ SucceededOnStaticData
    /\ runId = 2
    /\ syncRuns[1].status = "success"
    /\ Len(hist.commits) >= 1
    /\ upstream # {}

====
